---------------------------- MODULE Spec2Model ----------------------------
(***************************************************************************)
(* Model of the alarm player (yushun1990/alarm_player): the shared alarm   *)
(* state service (src/src/service.rs), the real-time gate                  *)
(* (src/src/task/real_time.rs), the player (src/src/task/play.rs), the     *)
(* cycle repeater (src/src/task/cycle.rs), the test scheduler and the      *)
(* broker handlers (src/src/handler/*.rs) and the start-up / shutdown      *)
(* sequence (src/src/app.rs).                                              *)
(***************************************************************************)
EXTENDS Integers, Sequences, FiniteSets, TLC

(***************************************************************************)
(* Bounds of the model.                                                    *)
(***************************************************************************)
\* producer timestamps range over 1..MaxTs
MaxTs == 2
\* longest list carried by one message (inventory snapshot, confirm list)
MaxItems == 1
\* number of set_alarm calls followed by the two-alarm ingest specification
MaxIngest == 2

(***************************************************************************)
(* Values.                                                                 *)
(***************************************************************************)
None == "None"

\* the absent value of an optional struct (Option::None)
Nil == [nil |-> TRUE]

Timestamps == 1..MaxTs

\* Identity keys (house_code, target_name) used by the model.  The first two
\* are different identities that get_alarm_set_key formats to the same
\* string "h_t_t".
AlarmIds ==
    { [house_code |-> "h",   target_name |-> "t_t"],
      [house_code |-> "h_t", target_name |-> "t"],
      [house_code |-> "g",   target_name |-> "t"] }

\* model/alarm.rs: the fields of Alarm the pipeline decides on
Alarm(id, ts, isAlarm, isTest, isConfirmed) ==
    [ house_code   |-> id.house_code,
      target_name  |-> id.target_name,
      timestamp    |-> ts,
      is_alarm     |-> isAlarm,
      is_test      |-> isTest,
      is_confirmed |-> isConfirmed,
      is_new       |-> FALSE ]

AlarmIdOf(alarm) ==
    [house_code |-> alarm.house_code, target_name |-> alarm.target_name]

\* alarms the gate hands to set_alarm: broker raises and clears, is_test false
IngestAlarms ==
    { Alarm(id, ts, isAlarm, FALSE, FALSE) :
        id \in AlarmIds, ts \in Timestamps, isAlarm \in BOOLEAN }

\* items of the inventory snapshot (From<AlarmInitRespItem> for Alarm)
SnapshotAlarms ==
    { Alarm(id, ts, TRUE, FALSE, FALSE) : id \in AlarmIds, ts \in Timestamps }

\* alarms whose status the player and the cycle repeater ask for
QueryAlarms ==
    { Alarm(id, ts, TRUE, isTest, isConfirmed) :
        id \in AlarmIds, ts \in Timestamps,
        isTest \in BOOLEAN, isConfirmed \in BOOLEAN }

\* entries of a confirm message (handler/alarm_confirm.rs builds an
\* Alarm::default() and overwrites house_code, target_name, is_confirmed)
ConfirmAlarms ==
    { Alarm(id, 1, TRUE, TRUE, c) : id \in AlarmIds, c \in BOOLEAN }

SeqsUpTo(S, n) == UNION { [1..m -> S] : m \in 0..n }

\* houses lists of a houses message: at most the house "h"
HouseFlags == BOOLEAN \X BOOLEAN
HouseLists ==
    { <<>> } \cup
    { << [code |-> "h", enabled |-> f[1], is_empty_mode |-> f[2]] >> :
        f \in HouseFlags }

EmptyMap == [k \in {} |-> None]

MapPut(m, k, v) == [x \in (DOMAIN m) \cup {k} |-> IF x = k THEN v ELSE m[x]]

MapDel(m, k) == [x \in (DOMAIN m) \ {k} |-> m[x]]

(***************************************************************************)
(* State.                                                                  *)
(***************************************************************************)
VARIABLES
    \* AlarmService (service.rs:111-146)
    alarm_set,            \* key string -> Alarm
    unmapped_cancel_set,  \* key string -> Alarm
    house_set,            \* house code -> House
    is_alarm_paused,
    alarm_set_inited,     \* init_alarm_set has been called (app.rs:148-154)
    crontab,              \* None, "valid" or "invalid" (a cron expression)
    soundbox,             \* BoxConfig: [enabled]
    soundposts,           \* PostConfig: [device_ids]
    play_mode,            \* Play.play_mode: "Music" or "Tts"
    play_delay_secs,      \* seconds between an alarm and its first playback
    play_interval_secs,   \* seconds between two rounds of a playback
    test_play_duration,   \* seconds a test playback lasts
    language,             \* the language of the farm, None when not stored
    play_records,         \* the alarms play_record has written a row for
    \* the channels of app.rs:40-43, oldest message first
    real_time_q,          \* real_time_tx -> real_time_rx (gate input)
    player_q,             \* player_tx -> player_rx
    cycle_q,              \* cycle_tx -> cycle_rx
    ct_q,                 \* ct_tx -> ct_rx (test alarm configs)
    \* the tasks
    mqtt,                 \* MqttClient::subscribe and the handler chain
    realtime,             \* RealTime::run
    retry_tasks,          \* the tasks spawned by RealTime::test_alarm_retry
    test_alarm,           \* TestAlarm::run
    play,                 \* Play::run
    box_tx,               \* Play.box_tx: Tx [test_tx, alarm_tx]
    post_tx,              \* Play.post_tx: Tx [test_tx, alarm_tx]
    sinks,                \* the sink subtasks of the playback in progress
    cycle,                \* Cycle::run
    alarms,               \* Cycle.alarms
    app,                  \* app::run
    notified,             \* tasks whose shutdown.notified() has been woken
    \* observation of the service interface
    lastCall,             \* the last service operation and what it returned
    ingestLog,            \* the alarms handed to set_alarm, in order
    published,            \* the messages AlarmService::publish has sent
    \* the wall clock (OffsetDateTime::now_utc), in half milliseconds
    now

svcVars == <<alarm_set, unmapped_cancel_set, house_set, is_alarm_paused,
             alarm_set_inited>>

cfgVars == <<crontab, soundbox, soundposts, play_mode, play_delay_secs,
             play_interval_secs, test_play_duration, language>>

queueVars == <<real_time_q, player_q, cycle_q, ct_q>>

gateVars == <<realtime, retry_tasks>>

playVars == <<play, box_tx, post_tx, sinks, play_records>>

cycleVars == <<cycle, alarms>>

appVars == <<app, notified>>

pipeVars == <<cfgVars, queueVars, mqtt, gateVars, test_alarm, playVars,
              cycleVars, appVars>>

obsVars == <<lastCall, ingestLog, published, now>>

vars == <<svcVars, pipeVars, obsVars>>

(***************************************************************************)
(* AlarmService: pure parts.                                               *)
(***************************************************************************)
\* service.rs:320-322
get_alarm_set_key(alarm) == alarm.house_code \o "_" \o alarm.target_name

\* an ingest that remembers a stale clear in the unmapped-cancel set (what
\* set_alarm must not be)
set_alarm_stale_clear(aset, ucset, alarm) ==
    LET key == get_alarm_set_key(alarm) IN
    IF key \in DOMAIN aset
    THEN LET last_alarm == aset[key] IN
         IF alarm.timestamp < last_alarm.timestamp
         THEN [alarm_set |-> aset,
               unmapped_cancel_set |->
                   IF alarm.is_alarm THEN ucset ELSE MapPut(ucset, key, alarm),
               ret |-> FALSE]
         ELSE IF ~alarm.is_alarm /\ alarm.timestamp > last_alarm.timestamp
         THEN [alarm_set |-> MapDel(aset, key), unmapped_cancel_set |-> ucset,
               ret |-> FALSE]
         ELSE [alarm_set |-> aset, unmapped_cancel_set |-> ucset,
               ret |-> (FALSE \/ alarm.is_new)]
    ELSE IF alarm.is_alarm
         THEN [alarm_set |-> MapPut(aset, key, alarm),
               unmapped_cancel_set |-> ucset, ret |-> TRUE]
         ELSE [alarm_set |-> aset,
               unmapped_cancel_set |-> MapPut(ucset, key, alarm),
               ret |-> FALSE]

\* service.rs:353-382.  The result is the pair of sets after the call and
\* the returned bool.
set_alarm(aset, ucset, alarm) ==
    LET key == get_alarm_set_key(alarm) IN
    IF key \in DOMAIN aset
    THEN LET last_alarm == aset[key] IN
         IF alarm.timestamp < last_alarm.timestamp
         THEN [alarm_set |-> aset, unmapped_cancel_set |-> ucset, ret |-> FALSE]
         ELSE IF ~alarm.is_alarm /\ alarm.timestamp > last_alarm.timestamp
         THEN [alarm_set |-> MapDel(aset, key), unmapped_cancel_set |-> ucset,
               ret |-> FALSE]
         ELSE [alarm_set |-> aset, unmapped_cancel_set |-> ucset,
               ret |-> (FALSE \/ alarm.is_new)]
    ELSE IF alarm.is_alarm
         THEN [alarm_set |-> MapPut(aset, key, alarm),
               unmapped_cancel_set |-> ucset, ret |-> TRUE]
         ELSE [alarm_set |-> aset,
               unmapped_cancel_set |-> MapPut(ucset, key, alarm),
               ret |-> FALSE]

\* service.rs:332-339
RECURSIVE confirm_alarms(_, _)
confirm_alarms(aset, list) ==
    IF list = <<>> THEN aset
    ELSE LET alarm == Head(list)
             key   == get_alarm_set_key(alarm)
             next  == IF key \in DOMAIN aset
                      THEN [aset EXCEPT ![key].is_confirmed = alarm.is_confirmed]
                      ELSE aset
         IN confirm_alarms(next, Tail(list))

\* service.rs:392-396: the snapshot items are inserted in order
RECURSIVE InsertItems(_, _)
InsertItems(aset, items) ==
    IF items = <<>> THEN aset
    ELSE InsertItems(MapPut(aset, get_alarm_set_key(Head(items)), Head(items)),
                     Tail(items))

\* a bootstrap that lets a buffered clear of the same timestamp suppress the
\* snapshot entry (what init_alarm_set must not be)
init_alarm_set_not_older(aset, ucset, items) ==
    LET loaded == InsertItems(aset, items)
        dead   == { k \in DOMAIN ucset :
                      k \in DOMAIN loaded
                      /\ ucset[k].timestamp >= loaded[k].timestamp }
    IN [k \in (DOMAIN loaded) \ dead |-> loaded[k]]

\* service.rs:384-410 (the successful fetch)
init_alarm_set(aset, ucset, items) ==
    LET loaded == InsertItems(aset, items)
        dead   == { k \in DOMAIN ucset :
                      k \in DOMAIN loaded
                      /\ ucset[k].timestamp > loaded[k].timestamp }
    IN [k \in (DOMAIN loaded) \ dead |-> loaded[k]]

\* service.rs:412-414
is_ongoing_alarm_exist(aset) == DOMAIN aset # {}

\* a status predicate that also cancels an alarm whose timestamp equals the
\* stored one (what get_alarm_status must not be)
get_alarm_status_ge(aset, houses, paused, alarm) ==
    LET key == get_alarm_set_key(alarm) IN
    IF key \notin DOMAIN aset /\ ~alarm.is_test
    THEN "Canceled"
    ELSE IF key \in DOMAIN aset /\ aset[key].timestamp >= alarm.timestamp
    THEN "Canceled"
    ELSE IF paused \/ alarm.is_confirmed THEN "Paused" ELSE "Playable"

\* a status predicate that pauses the alarms of a house that is in empty mode
\* or disabled, instead of in empty mode and disabled (what get_alarm_status
\* must not be)
get_alarm_status_house_or(aset, houses, paused, alarm) ==
    LET key == get_alarm_set_key(alarm) IN
    IF key \notin DOMAIN aset /\ ~alarm.is_test
    THEN "Canceled"
    ELSE IF key \in DOMAIN aset /\ aset[key].timestamp > alarm.timestamp
    THEN "Canceled"
    ELSE LET house_paused ==
                 IF alarm.house_code \in DOMAIN houses
                 THEN houses[alarm.house_code].is_empty_mode
                      \/ ~houses[alarm.house_code].enabled
                 ELSE FALSE
         IN IF paused \/ alarm.is_confirmed \/ house_paused
            THEN "Paused"
            ELSE "Playable"

\* service.rs:416-444
get_alarm_status(aset, houses, paused, alarm) ==
    LET key == get_alarm_set_key(alarm) IN
    IF key \notin DOMAIN aset /\ ~alarm.is_test
    THEN "Canceled"
    ELSE IF key \in DOMAIN aset /\ aset[key].timestamp > alarm.timestamp
    THEN "Canceled"
    ELSE LET house_paused ==
                 IF alarm.house_code \in DOMAIN houses
                 THEN houses[alarm.house_code].is_empty_mode
                      /\ ~houses[alarm.house_code].enabled
                 ELSE FALSE
         IN IF paused \/ alarm.is_confirmed \/ house_paused
            THEN "Paused"
            ELSE "Playable"

\* service.rs:324-330
RECURSIVE InsertHouses(_, _)
InsertHouses(houses, list) ==
    IF list = <<>> THEN houses
    ELSE InsertHouses(MapPut(houses, Head(list).code, Head(list)), Tail(list))

set_houses(list) == InsertHouses(EmptyMap, list)

\* service.rs:507-564: the spoken text of an alarm needs the name of its
\* house; the status token is the last piece of split(" "), which always
\* exists, and a missing translation falls back to the original text
get_alarm_content(houses, alarm) ==
    IF alarm.house_code \in DOMAIN houses THEN "Ok" ELSE "Err"

\* service.rs:595-644: a row of alarm_play_record
play_record(records, alarm, result_type, has_error) ==
    records \cup { [table |-> "alarm_play_record", alarm |-> alarm,
                    result_type |-> result_type,
                    sending_state |-> ~has_error] }

\* a test_result that reports a timed-out test as interrupted by an alarm
\* (what test_result must not be)
test_result_timeout_4(result_type) ==
    CASE result_type = "Normal" -> 3
      [] result_type \in {"Timeout", "AlarmArrived"} -> 4
      [] result_type = "Terminated" -> 5

\* service.rs:667-671
test_result(result_type) ==
    CASE result_type \in {"Normal", "Timeout"} -> 3
      [] result_type = "AlarmArrived" -> 4
      [] result_type = "Terminated" -> 5

\* service.rs:646-700: a row of test_alarm_play_record
test_play_record(records, alarm, result_type) ==
    records \cup { [table |-> "test_alarm_play_record", alarm |-> alarm,
                    result_type |-> result_type,
                    test_result |-> test_result(result_type)] }

(***************************************************************************)
(* AlarmService: the operations as steps of the service alone.             *)
(***************************************************************************)
\* AlarmService::new (service.rs:149-175)
SvcInit ==
    /\ alarm_set = EmptyMap
    /\ unmapped_cancel_set = EmptyMap
    /\ house_set = EmptyMap
    /\ is_alarm_paused = FALSE
    /\ alarm_set_inited = FALSE

\* the pipeline's house: known, enabled, occupied
HouseG == [code |-> "g", enabled |-> TRUE, is_empty_mode |-> FALSE]

\* AlarmService::new followed by AlarmService::init (service.rs:177-226):
\* init_house_set has loaded the houses of the database (service.rs:238-249),
\* the stored pause flag is off
SvcLoadedInit ==
    /\ alarm_set = EmptyMap
    /\ unmapped_cancel_set = EmptyMap
    /\ house_set = set_houses(<< HouseG >>)
    /\ is_alarm_paused = FALSE
    /\ alarm_set_inited = FALSE

ObsInit ==
    /\ lastCall = [op |-> None]
    /\ ingestLog = <<>>
    /\ published = <<>>
    /\ now = 0

\* the channels and tasks as app::run creates them (app.rs:40-129), before
\* the inventory snapshot is fetched and the cycle repeater is spawned
TasksInit ==
    /\ play_records = {}
    /\ real_time_q = <<>>
    /\ player_q = <<>>
    /\ cycle_q = <<>>
    /\ ct_q = <<>>
    /\ mqtt = [pc |-> "poll", n |-> 0]
    /\ realtime = [pc |-> "top", alarm |-> Nil, test_alarm |-> Nil]
    /\ retry_tasks = [tasks |-> <<>>, sleep_task_handle |-> FALSE]
    /\ test_alarm = [pc |-> "select", crontab |-> None, fired |-> 0]
    /\ play = [pc |-> "recv", alarm |-> Nil, alarm_status |-> None,
               sbox |-> Nil, posts |-> Nil, result_type |-> None,
               has_error |-> FALSE]
    /\ box_tx = [test_tx |-> FALSE, alarm_tx |-> FALSE]
    /\ post_tx = [test_tx |-> FALSE, alarm_tx |-> FALSE]
    /\ sinks = [box  |-> [st |-> "idle", rx |-> None],
                post |-> [st |-> "idle", rx |-> None]]
    /\ cycle = [pc |-> "unspawned", alarm |-> Nil, alarm_status |-> None]
    /\ alarms = <<>>
    /\ app = [pc |-> "init_alarm_set"]
    /\ notified = {}

\* AlarmService::new (service.rs:149-175) with the seconds of the
\* configuration (config.rs:225-227 has 20, 5 and 60), scaled down; no
\* language is stored for the farm
ConfiguredDefaults ==
    /\ play_delay_secs = 2
    /\ play_interval_secs = 1
    /\ test_play_duration = 1
    /\ language = None

\* AlarmService::new and AlarmService::init with no test schedule stored:
\* the local box enabled (service.rs:164-167), no soundpost device; the
\* play mode of the configuration defaults to Tts (config.rs:452-456)
BoxOnlyInit ==
    /\ crontab = None
    /\ soundbox = [enabled |-> TRUE]
    /\ soundposts = [device_ids |-> {}]
    /\ play_mode = "Tts"
    /\ ConfiguredDefaults

\* AlarmService::init with the box enabled and one enabled soundpost
\* device stored (service.rs:190-215)
BothSinksInit ==
    /\ crontab = None
    /\ soundbox = [enabled |-> TRUE]
    /\ soundposts = [device_ids |-> {1}]
    /\ play_mode = "Tts"
    /\ ConfiguredDefaults

\* the service after construction, nothing observed yet
ServiceInit == SvcInit /\ ObsInit /\ BoxOnlyInit /\ TasksInit

SvcSetAlarm(alarm) ==
    LET r == set_alarm(alarm_set, unmapped_cancel_set, alarm) IN
    /\ alarm_set' = r.alarm_set
    /\ unmapped_cancel_set' = r.unmapped_cancel_set
    /\ lastCall' = [op |-> "set_alarm", ret |-> r.ret]
    /\ UNCHANGED pipeVars
    /\ UNCHANGED <<house_set, is_alarm_paused, alarm_set_inited, ingestLog, published, now>>

SvcConfirmAlarms(list) ==
    /\ alarm_set' = confirm_alarms(alarm_set, list)
    /\ lastCall' = [op |-> "confirm_alarms"]
    /\ UNCHANGED pipeVars
    /\ UNCHANGED <<unmapped_cancel_set, house_set, is_alarm_paused,
                   alarm_set_inited, ingestLog, published, now>>

SvcInitAlarmSet(items) ==
    /\ ~alarm_set_inited
    /\ alarm_set_inited' = TRUE
    /\ alarm_set' = init_alarm_set(alarm_set, unmapped_cancel_set, items)
    /\ lastCall' = [op |-> "init_alarm_set", arg |-> items]
    /\ UNCHANGED pipeVars
    /\ UNCHANGED <<unmapped_cancel_set, house_set, is_alarm_paused, ingestLog, published, now>>

SvcSetAlarmPause(pause) ==
    /\ is_alarm_paused' = pause
    /\ lastCall' = [op |-> "set_alarm_pause"]
    /\ UNCHANGED pipeVars
    /\ UNCHANGED <<alarm_set, unmapped_cancel_set, house_set,
                   alarm_set_inited, ingestLog, published, now>>

SvcSetHouses(list) ==
    /\ house_set' = set_houses(list)
    /\ lastCall' = [op |-> "set_houses"]
    /\ UNCHANGED pipeVars
    /\ UNCHANGED <<alarm_set, unmapped_cancel_set, is_alarm_paused,
                   alarm_set_inited, ingestLog, published, now>>

SvcGetAlarmStatus(alarm) ==
    /\ lastCall' = [op |-> "get_alarm_status", arg |-> alarm,
                    ret |-> get_alarm_status(alarm_set, house_set,
                                             is_alarm_paused, alarm)]
    /\ UNCHANGED pipeVars
    /\ UNCHANGED <<svcVars, ingestLog, published, now>>

\* the alarm bookkeeping of the service: ingest, confirmation, bootstrap
SvcNext ==
    \/ \E alarm \in IngestAlarms : SvcSetAlarm(alarm)
    \/ \E list \in SeqsUpTo(ConfirmAlarms, MaxItems) \ {<<>>} :
          SvcConfirmAlarms(list)
    \/ \E items \in SeqsUpTo(SnapshotAlarms, MaxItems) : SvcInitAlarmSet(items)

SpecSvc == ServiceInit /\ [][SvcNext]_vars

\* the status predicate, asked in every state the raises and the
\* configuration setters lead to (a clear only takes an entry away again or
\* fills the unmapped-cancel set, which get_alarm_status does not read)
StatusNext ==
    \/ \E alarm \in { a \in IngestAlarms : a.is_alarm } : SvcSetAlarm(alarm)
    \/ \E pause \in BOOLEAN : SvcSetAlarmPause(pause)
    \/ \E list \in HouseLists : SvcSetHouses(list)
    \/ \E alarm \in QueryAlarms : SvcGetAlarmStatus(alarm)

SpecStatus == ServiceInit /\ [][StatusNext]_vars

(***************************************************************************)
(* The first MaxIngest alarms handed to a fresh service.                   *)
(***************************************************************************)
IngestSetAlarm(alarm) ==
    LET r == set_alarm(alarm_set, unmapped_cancel_set, alarm) IN
    /\ Len(ingestLog) < MaxIngest
    /\ alarm_set' = r.alarm_set
    /\ unmapped_cancel_set' = r.unmapped_cancel_set
    /\ lastCall' = [op |-> "set_alarm", ret |-> r.ret]
    /\ ingestLog' = Append(ingestLog, alarm)
    /\ UNCHANGED pipeVars
    /\ UNCHANGED <<house_set, is_alarm_paused, alarm_set_inited, published, now>>

IngestNext == \E alarm \in IngestAlarms : IngestSetAlarm(alarm)

SpecIngest == ServiceInit /\ [][IngestNext]_vars

(***************************************************************************)
(* The pipeline: values.                                                   *)
(***************************************************************************)
\* broker messages the router handles in one run
MaxMsgs == 2
\* scheduled firings of the test scheduler in one run
MaxTicks == 2
\* queue.real_time_size, queue.player_size, queue.cycle_size of the
\* configuration (config.rs:349-371)
RealTimeSize == 1
PlayerSize == 1
CycleSize == 1
\* app.rs:43
CtSize == 10

\* the identity the broker raises and clears in the pipeline
PipeIds == { [house_code |-> "g", target_name |-> "t"] }

\* handler/act_alarm.rs:47-68: the alarm the act-alarm handler enqueues
ActAlarms ==
    { Alarm(id, ts, isAlarm, FALSE, FALSE) :
        id \in PipeIds, ts \in Timestamps, isAlarm \in BOOLEAN }

\* the raises among them
RaiseAlarms == { a \in ActAlarms : a.is_alarm }

\* handler/alarm_confirm.rs:52-75: the list handed to confirm_alarms
ConfirmLists ==
    { << Alarm(id, MaxTs, TRUE, TRUE, c) >> : id \in PipeIds, c \in BOOLEAN }

\* the items of the inventory snapshot in the pipeline
SnapshotLists ==
    SeqsUpTo({ Alarm(id, ts, TRUE, FALSE, FALSE) :
                 id \in PipeIds, ts \in Timestamps }, MaxItems)

\* model/alarm.rs:40-61: Alarm::default(), the test alarm of the scheduler
TestAlarmNow ==
    Alarm([house_code |-> "test", target_name |-> "test"], MaxTs,
          TRUE, TRUE, FALSE)

\* seconds a setter or a config may carry
MaxSecs == 3

Secs == 1..MaxSecs

\* TestAlarmConfig messages: play_now, the cron expression and the duration
\* of the test playback
TestAlarmConfigs ==
    [ play_now : BOOLEAN, crontab : {None, "valid", "invalid"},
      duration : Secs ]

\* the configs that carry the configured duration
CrontabConfigs == { ct \in TestAlarmConfigs : ct.duration = 1 }

Room(q, size) == Len(q) < size

\* every order in which a HashMap may hand out its keys
Orders(S) ==
    { f \in [1..Cardinality(S) -> S] : \A x \in S : \E i \in DOMAIN f : f[i] = x }

\* service.rs:446-472: Some(time) for a cron expression that parses
next_fire_time(ct) == IF ct = "valid" THEN "Some" ELSE None

(***************************************************************************)
(* Play: the cancellation handles (task/play.rs:80-142).                   *)
(***************************************************************************)
TestPcs == {"test_box", "test_post", "test_join"}

AlarmPcs == {"alarm_box", "alarm_post", "alarm_join"}

\* tx.send(cancel_type) on a handle that was registered: the message
\* reaches the receiver of the subtask while that subtask runs, and fails
\* once the subtask has dropped its receiver
Signal(sink, registered, cancel_type) ==
    IF registered /\ sink.st = "running"
    THEN [sink EXCEPT !.rx = cancel_type]
    ELSE sink

\* a cancel_test that signals through the handles and leaves them registered
\* (what cancel_test must not be)
cancel_test_keeps_handles(bt, pt, sk, pl, cancel_type) ==
    LET live == pl.pc \in TestPcs IN
    [ box_tx  |-> bt,
      post_tx |-> pt,
      sinks   |-> [ box  |-> Signal(sk.box, bt.test_tx /\ live, cancel_type),
                    post |-> Signal(sk.post, pt.test_tx /\ live, cancel_type) ] ]

\* task/play.rs:80-100
cancel_test(bt, pt, sk, pl, cancel_type) ==
    LET live == pl.pc \in TestPcs IN
    [ box_tx  |-> [bt EXCEPT !.test_tx = FALSE],
      post_tx |-> [pt EXCEPT !.test_tx = FALSE],
      sinks   |-> [ box  |-> Signal(sk.box, bt.test_tx /\ live, cancel_type),
                    post |-> Signal(sk.post, pt.test_tx /\ live, cancel_type) ] ]

\* task/play.rs:102-122
cancel_alarm(bt, pt, sk, pl, cancel_type) ==
    LET live == pl.pc \in AlarmPcs IN
    [ box_tx  |-> [bt EXCEPT !.alarm_tx = FALSE],
      post_tx |-> [pt EXCEPT !.alarm_tx = FALSE],
      sinks   |-> [ box  |-> Signal(sk.box, bt.alarm_tx /\ live, cancel_type),
                    post |-> Signal(sk.post, pt.alarm_tx /\ live, cancel_type) ] ]

\* a cancel that takes the alarm handles for either cancel type (what cancel
\* must not be)
cancel_both_always(bt, pt, sk, pl, cancel_type) ==
    LET t == cancel_test(bt, pt, sk, pl, cancel_type) IN
    cancel_alarm(t.box_tx, t.post_tx, t.sinks, pl, cancel_type)

\* task/play.rs:124-134
cancel(bt, pt, sk, pl, cancel_type) ==
    LET t == cancel_test(bt, pt, sk, pl, cancel_type) IN
    IF cancel_type = "AlarmArrived"
    THEN t
    ELSE cancel_alarm(t.box_tx, t.post_tx, t.sinks, pl, cancel_type)

\* task/play.rs:136-138
cancel_test_play ==
    LET r == cancel(box_tx, post_tx, sinks, play, "AlarmArrived") IN
    /\ box_tx' = r.box_tx
    /\ post_tx' = r.post_tx
    /\ sinks' = r.sinks

\* task/play.rs:140-142
terminate_play ==
    LET r == cancel(box_tx, post_tx, sinks, play, "Terminated") IN
    /\ box_tx' = r.box_tx
    /\ post_tx' = r.post_tx
    /\ sinks' = r.sinks

(***************************************************************************)
(* The router: MqttClient::subscribe and the handler chain.                *)
(***************************************************************************)
\* a handler that returns after the send without cancel_test_play (what
\* ActAlarmHandler::proc must not be)
MqttActAlarm_without_cancel(alarm) ==
    /\ mqtt.pc = "poll"
    /\ mqtt.n < MaxMsgs
    /\ Room(real_time_q, RealTimeSize)
    /\ real_time_q' = Append(real_time_q, alarm)
    /\ mqtt' = [pc |-> "poll", n |-> mqtt.n + 1]
    /\ UNCHANGED <<svcVars, cfgVars, play_records, player_q, cycle_q, ct_q,
                   gateVars, test_alarm, play, box_tx, post_tx, sinks,
                   cycleVars, appVars, obsVars>>

\* handler/act_alarm.rs:47-61: a message on an alarm topic whose payload is
\* not an Alarm; deserialize fails and proc returns the error, which the
\* router logs before it polls again
MqttActAlarmUndecodable ==
    /\ mqtt.pc = "poll"
    /\ mqtt.n < MaxMsgs
    /\ mqtt' = [mqtt EXCEPT !.n = mqtt.n + 1]
    /\ UNCHANGED <<svcVars, cfgVars, play_records, queueVars, gateVars,
                   test_alarm, play, box_tx, post_tx, sinks, cycleVars,
                   appVars, obsVars>>

\* handler/act_alarm.rs:47-65: an alarm message; tx.send(alarm) completes
\* once the gate input has room
MqttActAlarm(alarm) ==
    /\ mqtt.pc = "poll"
    /\ mqtt.n < MaxMsgs
    /\ Room(real_time_q, RealTimeSize)
    /\ real_time_q' = Append(real_time_q, alarm)
    /\ mqtt' = [pc |-> "act_cancel", n |-> mqtt.n + 1]
    /\ UNCHANGED <<svcVars, cfgVars, play_records, player_q, cycle_q, ct_q,
                   gateVars, test_alarm, play, box_tx, post_tx, sinks,
                   cycleVars, appVars, obsVars>>

\* handler/act_alarm.rs:66: self.play.cancel_test_play()
MqttCancelTestPlay ==
    /\ mqtt.pc = "act_cancel"
    /\ cancel_test_play
    /\ mqtt' = [mqtt EXCEPT !.pc = "poll"]
    /\ UNCHANGED <<svcVars, cfgVars, play_records, queueVars, gateVars,
                   test_alarm, play, cycleVars, appVars, obsVars>>

\* handler/alarm_confirm.rs:52-75
MqttConfirm(list) ==
    /\ mqtt.pc = "poll"
    /\ mqtt.n < MaxMsgs
    /\ alarm_set' = confirm_alarms(alarm_set, list)
    /\ mqtt' = [mqtt EXCEPT !.n = mqtt.n + 1]
    /\ UNCHANGED <<unmapped_cancel_set, house_set, is_alarm_paused,
                   alarm_set_inited, cfgVars, play_records, queueVars,
                   gateVars, test_alarm, play, box_tx, post_tx, sinks,
                   cycleVars, appVars, obsVars>>

\* handler/test_alarm.rs:54-70
MqttCrontab(ct) ==
    /\ mqtt.pc = "poll"
    /\ mqtt.n < MaxMsgs
    /\ Room(ct_q, CtSize)
    /\ ct_q' = Append(ct_q, ct)
    /\ mqtt' = [mqtt EXCEPT !.n = mqtt.n + 1]
    /\ UNCHANGED <<svcVars, cfgVars, play_records, real_time_q, player_q,
                   cycle_q, gateVars, test_alarm, play, box_tx, post_tx,
                   sinks, cycleVars, appVars, obsVars>>

\* mqtt_client.rs:62-68: the shutdown branch of subscribe; the handler that
\* was running is dropped with the chain and its senders
MqttShutdown ==
    /\ "mqtt" \in notified
    /\ mqtt.pc # "done"
    /\ mqtt' = [mqtt EXCEPT !.pc = "done"]
    /\ UNCHANGED <<svcVars, cfgVars, play_records, queueVars, gateVars,
                   test_alarm, play, box_tx, post_tx, sinks, cycleVars,
                   appVars, obsVars>>

\* FarmConfig (handler/farm_config.rs:14-20): every field is optional
\* (an Option<bool> is <<>> or <<b>>)
FarmConfigs ==
    [ pause : {<<>>, <<TRUE>>, <<FALSE>>}, lang : {None, "en"},
      enable_box : {<<>>, <<TRUE>>, <<FALSE>>} ]

\* PlayCancelType (spec.md section 5)
PlayCancelTypes == {"AlarmArrived", "Terminated"}

\* handler/farm_config.rs:57-66: a farm_config message is decoded
MqttFarmConfig(fc) ==
    /\ mqtt.pc = "poll"
    /\ mqtt.n < MaxMsgs
    /\ mqtt' = [pc |-> "farm_config", n |-> mqtt.n + 1, fc |-> fc]
    /\ UNCHANGED <<svcVars, cfgVars, play_records, queueVars, gateVars,
                   test_alarm, play, box_tx, post_tx, sinks, cycleVars,
                   appVars, obsVars>>

\* handler/farm_config.rs:67-72: set_alarm_pause when the field is present
MqttFarmPause ==
    /\ mqtt.pc = "farm_config"
    /\ is_alarm_paused' =
          IF mqtt.fc.pause = <<>> THEN is_alarm_paused ELSE mqtt.fc.pause[1]
    /\ mqtt' = [mqtt EXCEPT
                  !.pc = IF mqtt.fc.pause = <<TRUE>> THEN "farm_cancel"
                         ELSE "farm_rest"]
    /\ UNCHANGED <<alarm_set, unmapped_cancel_set, house_set,
                   alarm_set_inited, cfgVars, play_records, queueVars,
                   gateVars, test_alarm, play, box_tx, post_tx, sinks,
                   cycleVars, appVars, obsVars>>

\* handler/farm_config.rs:73-75: self.play.cancel_play(); the current alarm
\* playback is cancelled through the alarm handles, with either cancel type
MqttCancelPlay ==
    /\ mqtt.pc = "farm_cancel"
    /\ \E cancel_type \in PlayCancelTypes :
          LET r == cancel_alarm(box_tx, post_tx, sinks, play, cancel_type) IN
          /\ box_tx' = r.box_tx
          /\ post_tx' = r.post_tx
          /\ sinks' = r.sinks
    /\ mqtt' = [mqtt EXCEPT !.pc = "farm_rest"]
    /\ UNCHANGED <<svcVars, cfgVars, play_records, queueVars, gateVars,
                   test_alarm, play, cycleVars, appVars, obsVars>>

\* handler/farm_config.rs:78-95: set_language and set_soundbox when their
\* fields are present
MqttFarmRest ==
    /\ mqtt.pc = "farm_rest"
    /\ language' = IF mqtt.fc.lang = None THEN language ELSE mqtt.fc.lang
    /\ soundbox' = IF mqtt.fc.enable_box = <<>> THEN soundbox
                   ELSE [enabled |-> mqtt.fc.enable_box[1]]
    /\ mqtt' = [pc |-> "poll", n |-> mqtt.n]
    /\ UNCHANGED <<svcVars, crontab, soundposts, play_mode, play_delay_secs,
                   play_interval_secs, test_play_duration, play_records,
                   queueVars, gateVars, test_alarm, play, box_tx, post_tx,
                   sinks, cycleVars, appVars, obsVars>>

(***************************************************************************)
(* The real-time gate (task/real_time.rs).                                 *)
(***************************************************************************)
\* every real_time_tx is dropped: the handler chain and the test scheduler
Disconnected == mqtt.pc = "done" /\ test_alarm.pc = "done"

\* a gate that passes every act alarm on, whatever set_alarm returned (what
\* process must not be)
process_emit_all(alarm) ==
    IF alarm.is_test
    THEN /\ realtime' = [realtime EXCEPT !.pc = "top", !.test_alarm = alarm]
         /\ UNCHANGED <<alarm_set, unmapped_cancel_set>>
    ELSE LET r == set_alarm(alarm_set, unmapped_cancel_set, alarm) IN
         /\ alarm_set' = r.alarm_set
         /\ unmapped_cancel_set' = r.unmapped_cancel_set
         /\ realtime' = [realtime EXCEPT !.pc = "delay", !.alarm = alarm]

\* task/real_time.rs:118-158 up to the delay
process(alarm) ==
    IF alarm.is_test
    THEN /\ realtime' = [realtime EXCEPT !.pc = "top", !.test_alarm = alarm]
         /\ UNCHANGED <<alarm_set, unmapped_cancel_set>>
    ELSE LET r == set_alarm(alarm_set, unmapped_cancel_set, alarm) IN
         /\ alarm_set' = r.alarm_set
         /\ unmapped_cancel_set' = r.unmapped_cancel_set
         /\ realtime' = IF r.ret
                        THEN [realtime EXCEPT !.pc = "delay", !.alarm = alarm]
                        ELSE [realtime EXCEPT !.pc = "top"]

\* task/real_time.rs:34-48 and 70-78: try_recv or recv hands out an alarm
GateReceive ==
    /\ realtime.pc \in {"top", "recv"}
    /\ real_time_q # <<>>
    /\ real_time_q' = Tail(real_time_q)
    /\ process(Head(real_time_q))
    /\ UNCHANGED <<house_set, is_alarm_paused, alarm_set_inited, cfgVars,
                   play_records, player_q, cycle_q, ct_q, mqtt, retry_tasks,
                   test_alarm, play, box_tx, post_tx, sinks, cycleVars,
                   appVars, obsVars>>

\* task/real_time.rs:147-157: the delay is over, alarm_to_play
GateAlarmToPlay ==
    /\ realtime.pc = "delay"
    /\ Room(player_q, PlayerSize)
    /\ player_q' = Append(player_q, realtime.alarm)
    /\ realtime' = [realtime EXCEPT !.pc = "top", !.alarm = Nil]
    /\ UNCHANGED <<svcVars, cfgVars, play_records, real_time_q, cycle_q,
                   ct_q, mqtt, retry_tasks, test_alarm, play, box_tx,
                   post_tx, sinks, cycleVars, appVars, obsVars>>

\* task/real_time.rs:50-62 and 83-115: the input is empty and a test alarm
\* is stashed
GateTestCheck ==
    /\ realtime.pc = "top"
    /\ real_time_q = <<>>
    /\ ~Disconnected
    /\ realtime.test_alarm # Nil
    /\ IF is_ongoing_alarm_exist(alarm_set)
       THEN /\ realtime' = [realtime EXCEPT !.test_alarm = Nil]
            /\ \E past_next_fire \in
                    IF next_fire_time(crontab) # None THEN BOOLEAN ELSE {FALSE} :
                 retry_tasks' =
                    IF past_next_fire
                    THEN retry_tasks
                    ELSE [ tasks |-> Append(retry_tasks.tasks, realtime.test_alarm),
                           sleep_task_handle |-> TRUE ]
       ELSE /\ realtime' = [realtime EXCEPT !.pc = "test_send"]
            /\ UNCHANGED retry_tasks
    /\ UNCHANGED <<svcVars, cfgVars, play_records, queueVars, mqtt,
                   test_alarm, play, box_tx, post_tx, sinks, cycleVars,
                   appVars, obsVars>>

\* task/real_time.rs:64-66
GateTestToPlay ==
    /\ realtime.pc = "test_send"
    /\ Room(player_q, PlayerSize)
    /\ player_q' = Append(player_q, realtime.test_alarm)
    /\ realtime' = [realtime EXCEPT !.pc = "top", !.test_alarm = Nil]
    /\ UNCHANGED <<svcVars, cfgVars, play_records, real_time_q, cycle_q,
                   ct_q, mqtt, retry_tasks, test_alarm, play, box_tx,
                   post_tx, sinks, cycleVars, appVars, obsVars>>

\* task/real_time.rs:69-70: nothing to do, block in recv
GateWait ==
    /\ realtime.pc = "top"
    /\ real_time_q = <<>>
    /\ ~Disconnected
    /\ realtime.test_alarm = Nil
    /\ realtime' = [realtime EXCEPT !.pc = "recv"]
    /\ UNCHANGED <<svcVars, cfgVars, play_records, queueVars, mqtt,
                   retry_tasks, test_alarm, play, box_tx, post_tx, sinks,
                   cycleVars, appVars, obsVars>>

\* task/real_time.rs:37-42: try_recv finds the input disconnected
GateDisconnected ==
    /\ realtime.pc = "top"
    /\ real_time_q = <<>>
    /\ Disconnected
    /\ realtime' = [pc |-> "done", alarm |-> Nil, test_alarm |-> Nil]
    /\ retry_tasks' =
          IF retry_tasks.sleep_task_handle
          THEN [ tasks |-> SubSeq(retry_tasks.tasks, 1,
                                  Len(retry_tasks.tasks) - 1),
                 sleep_task_handle |-> FALSE ]
          ELSE retry_tasks
    /\ UNCHANGED <<svcVars, cfgVars, play_records, queueVars, mqtt,
                   test_alarm, play, box_tx, post_tx, sinks, cycleVars,
                   appVars, obsVars>>

\* task/real_time.rs:70-76: recv returns None
GateClosed ==
    /\ realtime.pc = "recv"
    /\ real_time_q = <<>>
    /\ Disconnected
    /\ realtime' = [pc |-> "done", alarm |-> Nil, test_alarm |-> Nil]
    /\ UNCHANGED <<svcVars, cfgVars, play_records, queueVars, mqtt,
                   retry_tasks, test_alarm, play, box_tx, post_tx, sinks,
                   cycleVars, appVars, obsVars>>

\* task/real_time.rs:106-114: a retry task wakes and sends its test alarm
RetrySend(i) ==
    /\ i \in DOMAIN retry_tasks.tasks
    /\ Room(player_q, PlayerSize)
    /\ player_q' = Append(player_q, retry_tasks.tasks[i])
    /\ retry_tasks' =
          [ tasks |-> [ j \in 1..(Len(retry_tasks.tasks) - 1) |->
                          IF j < i THEN retry_tasks.tasks[j]
                          ELSE retry_tasks.tasks[j + 1] ],
            sleep_task_handle |->
                retry_tasks.sleep_task_handle /\ i # Len(retry_tasks.tasks) ]
    /\ UNCHANGED <<svcVars, cfgVars, play_records, real_time_q, cycle_q,
                   ct_q, mqtt, realtime, test_alarm, play, box_tx, post_tx,
                   sinks, cycleVars, appVars, obsVars>>

(***************************************************************************)
(* The test scheduler (handler/test_alarm.rs:92-179).                      *)
(***************************************************************************)
\* handler/test_alarm.rs:105-109: the result published when an immediate
\* test is refused
OngoingAlarmResult ==
    [ topic |-> "ap/test_alarm/crontab/result", code |-> 1 ]

\* a scheduler that starts the immediate test whatever is ongoing (what the
\* play_now branch of TestAlarm::run must not be)
TestAlarmConfig_ignores_ongoing ==
    /\ test_alarm.pc = "select"
    /\ ct_q # <<>>
    /\ ct_q' = Tail(ct_q)
    /\ LET ct == Head(ct_q) IN
       IF ct.play_now
       THEN /\ test_alarm' = [test_alarm EXCEPT !.pc = "play_now"]
            /\ UNCHANGED <<published, crontab, test_play_duration>>
       ELSE /\ test_play_duration' = ct.duration
            /\ crontab' = ct.crontab
            /\ test_alarm' = [test_alarm EXCEPT !.crontab = ct.crontab]
            /\ UNCHANGED published
    /\ UNCHANGED <<svcVars, soundbox, soundposts, play_mode, play_delay_secs,
                   play_interval_secs, language, play_records, real_time_q,
                   player_q,
                   cycle_q, mqtt, gateVars, play, box_tx, post_tx, sinks,
                   cycleVars, appVars, lastCall, ingestLog, now>>

\* handler/test_alarm.rs:95-136 and service.rs:482-485: a config arrives; it
\* preempts the sleep of send_test_alarm
TestAlarmConfig ==
    /\ test_alarm.pc = "select"
    /\ ct_q # <<>>
    /\ ct_q' = Tail(ct_q)
    /\ LET ct == Head(ct_q) IN
       IF ct.play_now
       THEN /\ IF is_ongoing_alarm_exist(alarm_set)
               THEN /\ published' = Append(published, OngoingAlarmResult)
                    /\ UNCHANGED test_alarm
               ELSE /\ test_alarm' = [test_alarm EXCEPT !.pc = "play_now"]
                    /\ UNCHANGED published
            /\ UNCHANGED <<crontab, test_play_duration>>
       ELSE /\ test_play_duration' = ct.duration
            /\ crontab' = ct.crontab
            /\ test_alarm' = [test_alarm EXCEPT !.crontab = ct.crontab]
            /\ UNCHANGED published
    /\ UNCHANGED <<svcVars, soundbox, soundposts, play_mode, play_delay_secs,
                   play_interval_secs, language, play_records, real_time_q,
                   player_q,
                   cycle_q, mqtt, gateVars, play, box_tx, post_tx, sinks,
                   cycleVars, appVars, lastCall, ingestLog, now>>

\* handler/test_alarm.rs:122-128: tx.send of the play-now test alarm
TestAlarmPlayNow ==
    /\ test_alarm.pc = "play_now"
    /\ Room(real_time_q, RealTimeSize)
    /\ real_time_q' = Append(real_time_q, TestAlarmNow)
    /\ test_alarm' = [test_alarm EXCEPT !.pc = "select"]
    /\ UNCHANGED <<svcVars, cfgVars, play_records, player_q, cycle_q, ct_q,
                   mqtt, gateVars, play, box_tx, post_tx, sinks, cycleVars,
                   appVars, obsVars>>

\* a scheduler that ticks on the stored schedule without a crontab
\* reference of its own (what the select of TestAlarm::run must not be)
TestAlarmFire_without_reference ==
    /\ test_alarm.pc = "select"
    /\ next_fire_time(crontab) # None
    /\ test_alarm.fired < MaxTicks
    /\ Room(real_time_q, RealTimeSize)
    /\ real_time_q' = Append(real_time_q, TestAlarmNow)
    /\ test_alarm' = [test_alarm EXCEPT !.fired = test_alarm.fired + 1]
    /\ UNCHANGED <<svcVars, cfgVars, play_records, player_q, cycle_q, ct_q,
                   mqtt, gateVars, play, box_tx, post_tx, sinks, cycleVars,
                   appVars, obsVars>>

\* handler/test_alarm.rs:143 and 149-173: the schedule fires
TestAlarmFire ==
    /\ test_alarm.pc = "select"
    /\ test_alarm.crontab # None
    /\ next_fire_time(crontab) # None
    /\ test_alarm.fired < MaxTicks
    /\ Room(real_time_q, RealTimeSize)
    /\ real_time_q' = Append(real_time_q, TestAlarmNow)
    /\ test_alarm' = [test_alarm EXCEPT !.fired = test_alarm.fired + 1]
    /\ UNCHANGED <<svcVars, cfgVars, play_records, player_q, cycle_q, ct_q,
                   mqtt, gateVars, play, box_tx, post_tx, sinks, cycleVars,
                   appVars, obsVars>>

\* handler/test_alarm.rs:137-140: the config channel is closed
TestAlarmClosed ==
    /\ test_alarm.pc = "select"
    /\ ct_q = <<>>
    /\ mqtt.pc = "done"
    /\ test_alarm' = [test_alarm EXCEPT !.pc = "done"]
    /\ UNCHANGED <<svcVars, cfgVars, play_records, queueVars, mqtt, gateVars,
                   play, box_tx, post_tx, sinks, cycleVars, appVars, obsVars>>

(***************************************************************************)
(* The player (task/play.rs:144-423).                                      *)
(***************************************************************************)
PlayIdle ==
    [pc |-> "recv", alarm |-> Nil, alarm_status |-> None,
     sbox |-> Nil, posts |-> Nil, result_type |-> None,
     has_error |-> FALSE]

\* a player that plays a paused alarm (what the dispatch of Play::run must
\* not be)
PlayDispatch_paused_plays(alarm, status, mode, houses) ==
    IF alarm.is_test THEN "test_box"
    ELSE IF status = "Canceled" THEN "recv"
    ELSE IF mode = "Tts" /\ get_alarm_content(houses, alarm) = "Err"
    THEN "recv"
    ELSE "alarm_box"

\* a player that asks for the spoken text in either play mode (what the
\* dispatch of Play::run is not)
PlayDispatch_content_always(alarm, status, mode, houses) ==
    IF alarm.is_test THEN "test_box"
    ELSE IF status = "Canceled" THEN "recv"
    ELSE IF status = "Paused" THEN "fwd"
    ELSE IF get_alarm_content(houses, alarm) = "Err"
    THEN "recv"
    ELSE "alarm_box"

\* task/play.rs:179-231: where Play::run goes with the alarm it received;
\* "recv" is `continue`
PlayDispatch(alarm, status, mode, houses) ==
    IF alarm.is_test THEN "test_box"
    ELSE IF status = "Canceled" THEN "recv"
    ELSE IF status = "Paused" THEN "fwd"
    ELSE IF mode = "Tts" /\ get_alarm_content(houses, alarm) = "Err"
    THEN "recv"
    ELSE "alarm_box"

\* task/play.rs:146-231: receive, read status and configuration, branch
PlayRecv ==
    /\ play.pc = "recv"
    /\ player_q # <<>>
    /\ player_q' = Tail(player_q)
    /\ LET alarm  == Head(player_q)
           status == get_alarm_status(alarm_set, house_set, is_alarm_paused,
                                      alarm)
           next   == PlayDispatch(alarm, status, play_mode, house_set)
       IN play' =
            IF next = "recv"
            THEN PlayIdle
            ELSE [pc |-> next, alarm |-> alarm, alarm_status |-> status,
                  sbox |-> soundbox, posts |-> soundposts,
                  result_type |-> "Normal", has_error |-> FALSE]
    /\ UNCHANGED <<svcVars, cfgVars, play_records, real_time_q, cycle_q,
                   ct_q, mqtt, gateVars, test_alarm, box_tx, post_tx, sinks,
                   cycleVars, appVars, obsVars>>

\* task/play.rs:273-286 and 358-371: register the box handle, spawn the box
\* subtask
PlayBox ==
    /\ play.pc \in {"test_box", "alarm_box"}
    /\ IF play.sbox.enabled
       THEN /\ box_tx' = IF play.pc = "test_box"
                         THEN [box_tx EXCEPT !.test_tx = TRUE]
                         ELSE [box_tx EXCEPT !.alarm_tx = TRUE]
            /\ sinks' = [sinks EXCEPT !.box = [st |-> "running", rx |-> None]]
       ELSE UNCHANGED <<box_tx, sinks>>
    /\ play' = [play EXCEPT
                  !.pc = IF play.pc = "test_box" THEN "test_post"
                         ELSE "alarm_post"]
    /\ UNCHANGED <<svcVars, cfgVars, play_records, queueVars, mqtt, gateVars,
                   test_alarm, post_tx, cycleVars, appVars, obsVars>>

\* task/play.rs:288-302 and 373-390: register the post handle, spawn the
\* soundpost subtask
PlayPost ==
    /\ play.pc \in {"test_post", "alarm_post"}
    /\ IF play.posts.device_ids # {}
       THEN /\ post_tx' = IF play.pc = "test_post"
                          THEN [post_tx EXCEPT !.test_tx = TRUE]
                          ELSE [post_tx EXCEPT !.alarm_tx = TRUE]
            /\ sinks' = [sinks EXCEPT !.post = [st |-> "running", rx |-> None]]
       ELSE UNCHANGED <<post_tx, sinks>>
    /\ play' = [play EXCEPT
                  !.pc = IF play.pc = "test_post" THEN "test_join"
                         ELSE "alarm_join"]
    /\ UNCHANGED <<svcVars, cfgVars, play_records, queueVars, mqtt, gateVars,
                   test_alarm, box_tx, cycleVars, appVars, obsVars>>

\* a sink subtask plays to its natural end; the coordinator's join_next
\* takes its result (task/play.rs:308-322, 394-408)
SinkFinish(s) ==
    /\ sinks[s].st = "running"
    /\ sinks' = [sinks EXCEPT ![s] = [st |-> "finished", rx |-> None]]
    /\ play' = [play EXCEPT !.result_type = "Normal"]
    /\ UNCHANGED <<svcVars, cfgVars, play_records, queueVars, mqtt, gateVars,
                   test_alarm, box_tx, post_tx, cycleVars, appVars, obsVars>>

\* a sink subtask returns an error or panics (task/play.rs:313-320,
\* 399-406): the coordinator notes the error and goes on joining
SinkFail(s) ==
    /\ sinks[s].st = "running"
    /\ sinks' = [sinks EXCEPT ![s] = [st |-> "failed", rx |-> None]]
    /\ play' = [play EXCEPT !.has_error = TRUE]
    /\ UNCHANGED <<svcVars, cfgVars, play_records, queueVars, mqtt, gateVars,
                   test_alarm, box_tx, post_tx, cycleVars, appVars, obsVars>>

\* a sink subtask receives the cancel that was sent to it and stops
SinkCanceled(s) ==
    /\ sinks[s].st = "running"
    /\ sinks[s].rx # None
    /\ sinks' = [sinks EXCEPT ![s] = [st |-> "finished", rx |-> sinks[s].rx]]
    /\ play' = [play EXCEPT !.result_type = sinks[s].rx]
    /\ UNCHANGED <<svcVars, cfgVars, play_records, queueVars, mqtt, gateVars,
                   test_alarm, box_tx, post_tx, cycleVars, appVars, obsVars>>

\* a player that writes no record for a playback with an error (what the
\* end of a playback must not be)
PlayJoin_errored_unrecorded ==
    /\ play.pc \in {"test_join", "alarm_join"}
    /\ \A s \in DOMAIN sinks : sinks[s].st # "running"
    /\ sinks' = [s \in DOMAIN sinks |-> [st |-> "idle", rx |-> None]]
    /\ play_records' =
          IF play.has_error THEN play_records
          ELSE play_record(play_records, play.alarm, play.result_type,
                           play.has_error)
    /\ play' = IF play.pc = "test_join"
               THEN PlayIdle
               ELSE [play EXCEPT !.pc = "fwd"]
    /\ UNCHANGED <<svcVars, cfgVars, queueVars, mqtt, gateVars, test_alarm,
                   box_tx, post_tx, cycleVars, appVars, obsVars>>

\* task/play.rs:308-340 and 194-196, 394-423 and 247-250: every subtask is
\* joined, play_record
PlayJoin ==
    /\ play.pc \in {"test_join", "alarm_join"}
    /\ \A s \in DOMAIN sinks : sinks[s].st # "running"
    /\ sinks' = [s \in DOMAIN sinks |-> [st |-> "idle", rx |-> None]]
    /\ play_records' = play_record(play_records, play.alarm, play.result_type,
                                   play.has_error)
    /\ play' = IF play.pc = "test_join"
               THEN PlayIdle
               ELSE [play EXCEPT !.pc = "fwd"]
    /\ UNCHANGED <<svcVars, cfgVars, queueVars, mqtt, gateVars, test_alarm,
                   box_tx, post_tx, cycleVars, appVars, obsVars>>

\* a player that goes back to its channel without forwarding the alarm it
\* played (what the end of Play::run's loop must not be)
PlayForward_lost ==
    /\ play.pc = "fwd"
    /\ play' = PlayIdle
    /\ UNCHANGED <<svcVars, cfgVars, play_records, queueVars, mqtt, gateVars,
                   test_alarm, box_tx, post_tx, sinks, cycleVars, appVars,
                   obsVars>>

\* task/play.rs:204-210 and 251-253: forward to the cycle repeater; the send
\* fails once the repeater has dropped its receiver
PlayForward ==
    /\ play.pc = "fwd"
    /\ IF cycle.pc = "done"
       THEN UNCHANGED cycle_q
       ELSE /\ Room(cycle_q, CycleSize)
            /\ cycle_q' = Append(cycle_q, play.alarm)
    /\ play' = PlayIdle
    /\ UNCHANGED <<svcVars, cfgVars, play_records, real_time_q, player_q,
                   ct_q, mqtt, gateVars, test_alarm, box_tx, post_tx, sinks,
                   cycleVars, appVars, obsVars>>

\* task/play.rs:146-151: every player_tx is dropped (gate, repeater, retry
\* tasks) and the queue is drained
PlayClosed ==
    /\ play.pc = "recv"
    /\ player_q = <<>>
    /\ realtime.pc = "done"
    /\ cycle.pc = "done"
    /\ retry_tasks.tasks = <<>>
    /\ play' = [PlayIdle EXCEPT !.pc = "done"]
    /\ UNCHANGED <<svcVars, cfgVars, play_records, queueVars, mqtt, gateVars,
                   test_alarm, box_tx, post_tx, sinks, cycleVars, appVars,
                   obsVars>>

(***************************************************************************)
(* The cycle repeater (task/cycle.rs).                                     *)
(***************************************************************************)
CycleIdle == [pc |-> "select", alarm |-> Nil, alarm_status |-> None]

\* task/cycle.rs:24-34 with service.rs:349-351: the queue starts as the
\* values of the ongoing-alarm set, in the order the map hands them out
CycleInit ==
    /\ cycle.pc = "init"
    /\ \E order \in Orders(DOMAIN alarm_set) :
          alarms' = [i \in DOMAIN order |-> alarm_set[order[i]]]
    /\ cycle' = CycleIdle
    /\ UNCHANGED <<svcVars, cfgVars, play_records, queueVars, mqtt, gateVars,
                   test_alarm, play, box_tx, post_tx, sinks, appVars,
                   obsVars>>

\* a repeater that takes from its channel only while it holds no alarm for
\* the player (what the select! of Cycle::run is not)
CycleRecv_idle_only ==
    /\ cycle.pc = "select"
    /\ cycle_q # <<>>
    /\ cycle_q' = Tail(cycle_q)
    /\ cycle' = [pc |-> "push", alarm |-> Head(cycle_q), alarm_status |-> None]
    /\ notified' = notified \ {"cycle"}
    /\ UNCHANGED <<svcVars, cfgVars, play_records, real_time_q, player_q,
                   ct_q, mqtt, gateVars, test_alarm, play, box_tx, post_tx,
                   sinks, alarms, app, obsVars>>

\* task/cycle.rs:48-51: alarm_rx.recv() completes; select! drops the other
\* branches, the play future with the alarm it popped included
CycleRecv ==
    /\ cycle.pc \in {"select", "sleep"}
    /\ cycle_q # <<>>
    /\ cycle_q' = Tail(cycle_q)
    /\ cycle' = [pc |-> "push", alarm |-> Head(cycle_q), alarm_status |-> None]
    /\ notified' = notified \ {"cycle"}
    /\ UNCHANGED <<svcVars, cfgVars, play_records, real_time_q, player_q,
                   ct_q, mqtt, gateVars, test_alarm, play, box_tx, post_tx,
                   sinks, alarms, app, obsVars>>

\* task/cycle.rs:100-103
CyclePush ==
    /\ cycle.pc = "push"
    /\ alarms' = Append(alarms, cycle.alarm)
    /\ cycle' = CycleIdle
    /\ UNCHANGED <<svcVars, cfgVars, play_records, queueVars, mqtt, gateVars,
                   test_alarm, play, box_tx, post_tx, sinks, appVars,
                   obsVars>>

\* task/cycle.rs:60 and 65-90: the play branch pops the head and reads its
\* status
CyclePlay ==
    /\ cycle.pc = "select"
    /\ alarms # <<>>
    /\ alarms' = Tail(alarms)
    /\ LET alarm  == Head(alarms)
           status == get_alarm_status(alarm_set, house_set, is_alarm_paused,
                                      alarm)
       IN IF status = "Canceled"
          THEN /\ cycle' = CycleIdle
               /\ notified' = notified \ {"cycle"}
          ELSE /\ cycle' = [pc |-> "sleep", alarm |-> alarm,
                            alarm_status |-> status]
               /\ UNCHANGED notified
    /\ UNCHANGED <<svcVars, cfgVars, play_records, queueVars, mqtt, gateVars,
                   test_alarm, play, box_tx, post_tx, sinks, app, obsVars>>

\* task/cycle.rs:90-95: the sleep is over and the alarm goes to the player
CycleSend ==
    /\ cycle.pc = "sleep"
    /\ Room(player_q, PlayerSize)
    /\ player_q' = Append(player_q, cycle.alarm)
    /\ cycle' = CycleIdle
    /\ notified' = notified \ {"cycle"}
    /\ UNCHANGED <<svcVars, cfgVars, play_records, real_time_q, cycle_q,
                   ct_q, mqtt, gateVars, test_alarm, play, box_tx, post_tx,
                   sinks, alarms, app, obsVars>>

\* task/cycle.rs:44-47
CycleShutdown ==
    /\ cycle.pc \in {"select", "sleep"}
    /\ "cycle" \in notified
    /\ cycle' = [pc |-> "done", alarm |-> Nil, alarm_status |-> None]
    /\ UNCHANGED <<svcVars, cfgVars, play_records, queueVars, mqtt, gateVars,
                   test_alarm, play, box_tx, post_tx, sinks, alarms, appVars,
                   obsVars>>

(***************************************************************************)
(* app::run (app.rs:148-203).                                              *)
(***************************************************************************)
\* app.rs:148-163: the inventory snapshot, then the repeater is spawned
AppInitAlarmSet(items) ==
    /\ app.pc = "init_alarm_set"
    /\ alarm_set' = init_alarm_set(alarm_set, unmapped_cancel_set, items)
    /\ alarm_set_inited' = TRUE
    /\ cycle' = [cycle EXCEPT !.pc = "init"]
    /\ app' = [pc |-> "wait"]
    /\ UNCHANGED <<unmapped_cancel_set, house_set, is_alarm_paused, cfgVars,
                   play_records, queueVars, mqtt, gateVars, test_alarm, play,
                   box_tx, post_tx, sinks, alarms, notified, obsVars>>

\* app.rs:182-189: a signal arrives; notify_waiters wakes the notified()
\* futures that exist at this moment
AppShutdown ==
    /\ app.pc = "wait"
    /\ notified' = { t \in {"mqtt", "cycle"} :
                       \/ t = "mqtt" /\ mqtt.pc # "done"
                       \/ t = "cycle" /\ cycle.pc \in {"select", "sleep"} }
    /\ app' = [pc |-> "join"]
    /\ UNCHANGED <<svcVars, cfgVars, play_records, queueVars, mqtt, gateVars,
                   test_alarm, play, box_tx, post_tx, sinks, cycleVars,
                   obsVars>>

\* app.rs:189-198: the join completes, terminate_play
AppTerminatePlay ==
    /\ app.pc = "join"
    /\ mqtt.pc = "done"
    /\ realtime.pc = "done"
    /\ cycle.pc = "done"
    /\ test_alarm.pc = "done"
    /\ terminate_play
    /\ app' = [pc |-> "await_play"]
    /\ UNCHANGED <<svcVars, cfgVars, play_records, queueVars, mqtt, gateVars,
                   test_alarm, play, cycleVars, notified, obsVars>>

\* app.rs:200-202
AppExit ==
    /\ app.pc = "await_play"
    /\ play.pc = "done"
    /\ app' = [pc |-> "exited"]
    /\ UNCHANGED <<svcVars, cfgVars, play_records, queueVars, mqtt, gateVars,
                   test_alarm, play, box_tx, post_tx, sinks, cycleVars,
                   notified, obsVars>>

(***************************************************************************)
(* The pipeline without test alarms and without shutdown: broker raises,   *)
(* clears and confirmations.                                               *)
(***************************************************************************)
PipeInit == SvcLoadedInit /\ ObsInit /\ BoxOnlyInit /\ TasksInit

PipeNext ==
    \/ \E alarm \in ActAlarms : MqttActAlarm(alarm)
    \/ MqttCancelTestPlay
    \/ \E list \in ConfirmLists : MqttConfirm(list)
    \/ GateReceive
    \/ GateAlarmToPlay
    \/ GateWait
    \/ PlayRecv
    \/ PlayBox
    \/ PlayPost
    \/ \E s \in DOMAIN sinks : SinkFinish(s)
    \/ PlayJoin
    \/ PlayForward
    \/ \E items \in SnapshotLists : AppInitAlarmSet(items)
    \/ CycleInit
    \/ CycleRecv
    \/ CyclePush
    \/ CyclePlay
    \/ CycleSend

Spec == PipeInit /\ [][PipeNext]_vars

(***************************************************************************)
(* The gate with the test scheduler, while app::run still waits for the    *)
(* inventory snapshot (the repeater is not spawned yet): broker raises and *)
(* clears, test alarm configs, scheduled and play-now test alarms.         *)
(***************************************************************************)
GateNext ==
    \/ \E alarm \in ActAlarms : MqttActAlarm(alarm)
    \/ MqttCancelTestPlay
    \/ \E ct \in CrontabConfigs : MqttCrontab(ct)
    \/ TestAlarmConfig
    \/ TestAlarmPlayNow
    \/ TestAlarmFire
    \/ GateReceive
    \/ GateAlarmToPlay
    \/ GateTestCheck
    \/ GateTestToPlay
    \/ GateWait
    \/ \E i \in DOMAIN retry_tasks.tasks : RetrySend(i)
    \/ PlayRecv
    \/ PlayBox
    \/ PlayPost
    \/ \E s \in DOMAIN sinks : SinkFinish(s)
    \/ \E s \in DOMAIN sinks : SinkCanceled(s)
    \/ PlayJoin
    \/ PlayForward

SpecGate == PipeInit /\ [][GateNext]_vars

(***************************************************************************)
(* The same tasks with both sinks configured: every playback launches the  *)
(* box subtask and the soundpost subtask.                                  *)
(***************************************************************************)
PlayInit == SvcLoadedInit /\ ObsInit /\ BothSinksInit /\ TasksInit

SpecPlay == PlayInit /\ [][GateNext]_vars

(***************************************************************************)
(* Start-up, broker raises and clears, and the shutdown sequence of        *)
(* app::run.  Every task that can take a step eventually takes one; the    *)
(* broker and the operator's signal are under no obligation.               *)
(***************************************************************************)
MqttTask == MqttCancelTestPlay \/ MqttShutdown

GateTask ==
    GateReceive \/ GateAlarmToPlay \/ GateWait \/ GateDisconnected \/ GateClosed

PlayerSteps == PlayRecv \/ PlayBox \/ PlayPost \/ PlayJoin \/ PlayForward

PlayTask == PlayRecv \/ PlayBox \/ PlayPost \/ PlayJoin \/ PlayForward \/ PlayClosed

SinkTask(s) == SinkFinish(s) \/ SinkCanceled(s)

CycleTask ==
    CycleInit \/ CycleRecv \/ CyclePush \/ CyclePlay \/ CycleSend \/ CycleShutdown

AppTask ==
    \/ \E items \in SnapshotLists : AppInitAlarmSet(items)
    \/ AppTerminatePlay
    \/ AppExit

ShutdownNext ==
    \/ \E alarm \in ActAlarms : MqttActAlarm(alarm)
    \/ AppShutdown
    \/ MqttTask
    \/ GateTask
    \/ TestAlarmClosed
    \/ PlayTask
    \/ \E s \in DOMAIN sinks : SinkTask(s)
    \/ CycleTask
    \/ AppTask

ShutdownFairness ==
    /\ WF_vars(MqttTask)
    /\ WF_vars(GateTask)
    /\ WF_vars(TestAlarmClosed)
    /\ WF_vars(PlayTask)
    /\ \A s \in {"box", "post"} : WF_vars(SinkTask(s))
    /\ WF_vars(CycleTask)
    /\ WF_vars(AppTask)

SpecShutdown == PipeInit /\ [][ShutdownNext]_vars /\ ShutdownFairness

(***************************************************************************)
(* Test playbacks on both sinks and the shutdown sequence of app::run:     *)
(* test alarm configs, scheduled and play-now test alarms, the inventory   *)
(* snapshot, the signal, the join and terminate_play.                      *)
(***************************************************************************)
TerminateNext ==
    \/ \E ct \in CrontabConfigs : MqttCrontab(ct)
    \/ MqttShutdown
    \/ TestAlarmConfig
    \/ TestAlarmPlayNow
    \/ TestAlarmFire
    \/ TestAlarmClosed
    \/ GateReceive
    \/ GateTestCheck
    \/ GateTestToPlay
    \/ GateWait
    \/ GateDisconnected
    \/ GateClosed
    \/ \E i \in DOMAIN retry_tasks.tasks : RetrySend(i)
    \/ PlayTask
    \/ \E s \in DOMAIN sinks : SinkTask(s)
    \/ CycleTask
    \/ AppShutdown
    \/ AppTask

SpecTerminate == PlayInit /\ [][TerminateNext]_vars

(***************************************************************************)
(* The test scheduler under every test config the broker can send, with    *)
(* the raises and clears that make an alarm ongoing or end it; the player  *)
(* takes what the gate emits and is followed no further.                   *)
(***************************************************************************)
ScheduleNext ==
    \/ \E alarm \in ActAlarms : MqttActAlarm(alarm)
    \/ MqttCancelTestPlay
    \/ \E ct \in TestAlarmConfigs : MqttCrontab(ct)
    \/ TestAlarmConfig
    \/ TestAlarmPlayNow
    \/ TestAlarmFire
    \/ GateReceive
    \/ GateAlarmToPlay
    \/ GateTestCheck
    \/ GateTestToPlay
    \/ GateWait
    \/ \E i \in DOMAIN retry_tasks.tasks : RetrySend(i)
    \/ PlayRecv

\* AlarmService::init has read the stored test schedule, if any
\* (service.rs:216-222); TestAlarm::new leaves the scheduler's own crontab
\* reference empty (handler/test_alarm.rs:80-85) and TestAlarm::init is not
\* called by app::run
ScheduleInit ==
    /\ SvcLoadedInit
    /\ ObsInit
    /\ TasksInit
    /\ crontab \in {None, "valid", "invalid"}
    /\ soundbox = [enabled |-> TRUE]
    /\ soundposts = [device_ids |-> {}]
    /\ play_mode = "Tts"
    /\ ConfiguredDefaults

SpecSchedule == ScheduleInit /\ [][ScheduleNext]_vars

(***************************************************************************)
(* One immediate test on both sinks, the broker raises and clears that     *)
(* interrupt it, and the shutdown sequence of app::run.                    *)
(***************************************************************************)
\* a play_now test config was handled while no alarm was ongoing
\* (handler/test_alarm.rs:97-128): the scheduler has put the test alarm on
\* the gate input; the router is ready for MaxMsgs further messages
TestRequestedInit ==
    /\ play_records = {}
    /\ real_time_q = << TestAlarmNow >>
    /\ player_q = <<>>
    /\ cycle_q = <<>>
    /\ ct_q = <<>>
    /\ mqtt = [pc |-> "poll", n |-> 0]
    /\ realtime = [pc |-> "top", alarm |-> Nil, test_alarm |-> Nil]
    /\ retry_tasks = [tasks |-> <<>>, sleep_task_handle |-> FALSE]
    /\ test_alarm = [pc |-> "select", crontab |-> None, fired |-> 0]
    /\ play = PlayIdle
    /\ box_tx = [test_tx |-> FALSE, alarm_tx |-> FALSE]
    /\ post_tx = [test_tx |-> FALSE, alarm_tx |-> FALSE]
    /\ sinks = [box  |-> [st |-> "idle", rx |-> None],
                post |-> [st |-> "idle", rx |-> None]]
    /\ cycle = [pc |-> "unspawned", alarm |-> Nil, alarm_status |-> None]
    /\ alarms = <<>>
    /\ app = [pc |-> "init_alarm_set"]
    /\ notified = {}

CancelInit == SvcLoadedInit /\ ObsInit /\ BothSinksInit /\ TestRequestedInit

CancelNext ==
    \/ \E alarm \in ActAlarms : MqttActAlarm(alarm)
    \/ MqttCancelTestPlay
    \/ GateReceive
    \/ GateAlarmToPlay
    \/ GateTestCheck
    \/ GateTestToPlay
    \/ GateWait
    \/ \E i \in DOMAIN retry_tasks.tasks : RetrySend(i)
    \/ PlayRecv
    \/ PlayBox
    \/ PlayPost
    \/ \E s \in DOMAIN sinks : SinkTask(s)
    \/ PlayJoin
    \/ PlayForward

SpecCancel == CancelInit /\ [][CancelNext]_vars

(***************************************************************************)
(* The same run with the router under every message an alarm topic can     *)
(* carry and under the operator's signal, which stops it wherever it is.   *)
(***************************************************************************)
RouterNext ==
    \/ CancelNext
    \/ MqttActAlarmUndecodable
    \/ MqttShutdown
    \/ AppInitAlarmSet(<<>>)
    \/ AppShutdown

SpecRouter == CancelInit /\ [][RouterNext]_vars

(***************************************************************************)
(* The same run with sink subtasks that can fail.                          *)
(***************************************************************************)
SinksNext ==
    \/ CancelNext
    \/ \E s \in DOMAIN sinks : SinkFail(s)

SpecSinks == CancelInit /\ [][SinksNext]_vars

(***************************************************************************)
(* Alarm playbacks on both sinks while the farm configuration changes: the *)
(* broker raises alarms and sends farm_config messages.                    *)
(***************************************************************************)
FarmNext ==
    \/ \E alarm \in RaiseAlarms : MqttActAlarm(alarm)
    \/ MqttCancelTestPlay
    \/ \E fc \in FarmConfigs : MqttFarmConfig(fc)
    \/ MqttFarmPause
    \/ MqttCancelPlay
    \/ MqttFarmRest
    \/ GateReceive
    \/ GateAlarmToPlay
    \/ GateWait
    \/ PlayerSteps
    \/ \E s \in DOMAIN sinks : SinkTask(s)

SpecFarm == PlayInit /\ [][FarmNext]_vars

(***************************************************************************)
(* The same run followed to the end of app::run: the inventory snapshot is *)
(* empty, the operator's signal may come at any time, terminate_play finds *)
(* the player idle, in the test playback or in an alarm playback.          *)
(***************************************************************************)
\* alarm messages of the broker before the operator's signal
MaxStopMsgs == 1

StopNext ==
    \/ \E alarm \in RaiseAlarms : mqtt.n < MaxStopMsgs /\ MqttActAlarm(alarm)
    \/ MqttTask
    \/ GateTask
    \/ GateTestCheck
    \/ GateTestToPlay
    \/ \E i \in DOMAIN retry_tasks.tasks : RetrySend(i)
    \/ TestAlarmClosed
    \/ PlayTask
    \/ \E s \in DOMAIN sinks : SinkTask(s)
    \/ CycleTask
    \/ AppInitAlarmSet(<<>>)
    \/ AppShutdown
    \/ AppTerminatePlay
    \/ AppExit

SpecStop == CancelInit /\ [][StopNext]_vars

(***************************************************************************)
(* The pipeline of broker raises and clears under every stored             *)
(* configuration: the house of the alarms unknown or known with any flags, *)
(* the global pause on or off, either play mode; the inventory snapshot is *)
(* empty.                                                                  *)
(***************************************************************************)
\* what init_house_set can find in the database for the pipeline's house
HouseTables ==
    { EmptyMap } \cup
    { set_houses(<< [code |-> "g", enabled |-> f[1], is_empty_mode |-> f[2]] >>) :
        f \in HouseFlags }

\* AlarmService::init (service.rs:177-226) and the play mode of the
\* configuration (app.rs:52)
ModesInit ==
    /\ alarm_set = EmptyMap
    /\ unmapped_cancel_set = EmptyMap
    /\ house_set \in HouseTables
    /\ is_alarm_paused \in BOOLEAN
    /\ alarm_set_inited = FALSE
    /\ crontab = None
    /\ soundbox = [enabled |-> TRUE]
    /\ soundposts = [device_ids |-> {}]
    /\ play_mode \in {"Music", "Tts"}
    /\ ConfiguredDefaults
    /\ ObsInit
    /\ TasksInit

ModesNext ==
    \/ \E alarm \in ActAlarms : MqttActAlarm(alarm)
    \/ MqttCancelTestPlay
    \/ GateReceive
    \/ GateAlarmToPlay
    \/ GateWait
    \/ PlayRecv
    \/ PlayBox
    \/ PlayPost
    \/ \E s \in DOMAIN sinks : SinkFinish(s)
    \/ PlayJoin
    \/ PlayForward
    \/ AppInitAlarmSet(<<>>)
    \/ CycleInit
    \/ CycleRecv
    \/ CyclePush
    \/ CyclePlay
    \/ CycleSend

SpecModes == ModesInit /\ [][ModesNext]_vars

(***************************************************************************)
(* Broker raises that are never cleared, with the house known, enabled and *)
(* occupied and no pause.  Every task that can take a step eventually      *)
(* takes one, and a sender that finds room in its channel again and again  *)
(* eventually sends (the channel serves its waiting senders in order); the *)
(* broker is under no obligation.                                          *)
(***************************************************************************)
CycleSteps == CycleInit \/ CycleRecv \/ CyclePush \/ CyclePlay \/ CycleSend

RaiseNext ==
    \/ \E alarm \in RaiseAlarms : MqttActAlarm(alarm)
    \/ MqttCancelTestPlay
    \/ GateReceive
    \/ GateAlarmToPlay
    \/ GateWait
    \/ PlayerSteps
    \/ \E s \in DOMAIN sinks : SinkFinish(s)
    \/ \E items \in SnapshotLists : AppInitAlarmSet(items)
    \/ CycleSteps

RaiseFairness ==
    /\ WF_vars(MqttCancelTestPlay)
    /\ WF_vars(GateReceive \/ GateWait)
    /\ SF_vars(GateAlarmToPlay)
    /\ WF_vars(PlayerSteps)
    /\ \A s \in {"box", "post"} : WF_vars(SinkFinish(s))
    /\ WF_vars(\E items \in SnapshotLists : AppInitAlarmSet(items))
    /\ WF_vars(CycleSteps)

SpecRaise == PipeInit /\ [][RaiseNext]_vars /\ RaiseFairness

(***************************************************************************)
(* The pipeline under raises, clears and confirmations with every task     *)
(* scheduled: the tokio runtime goes on polling a task that can take a     *)
(* step; the broker owes no message.                                       *)
(***************************************************************************)
PipeFairness ==
    /\ WF_vars(MqttCancelTestPlay)
    /\ WF_vars(GateReceive \/ GateWait)
    /\ SF_vars(GateAlarmToPlay)
    /\ WF_vars(PlayerSteps)
    /\ \A s \in {"box", "post"} : WF_vars(SinkFinish(s))
    /\ WF_vars(\E items \in SnapshotLists : AppInitAlarmSet(items))
    /\ WF_vars(CycleSteps)

SpecPipeFair == PipeInit /\ [][PipeNext]_vars /\ PipeFairness

(***************************************************************************)
(* The ring of the player and the cycle repeater under load: the inventory *)
(* snapshot holds MaxRing ongoing alarms of the pipeline's house; the      *)
(* broker is silent.                                                       *)
(***************************************************************************)
MaxRing == 4

RingSnapshot ==
    [ i \in 1..MaxRing |->
        Alarm([house_code |-> "g", target_name |-> ToString(i)], 1, TRUE,
              FALSE, FALSE) ]

RingNext ==
    \/ PlayerSteps
    \/ \E s \in DOMAIN sinks : SinkFinish(s)
    \/ AppInitAlarmSet(RingSnapshot)
    \/ CycleSteps

SpecRing == PipeInit /\ [][RingNext]_vars

(***************************************************************************)
(* The timing settings of the service (service.rs:487-505, 587-593).       *)
(***************************************************************************)
\* service.rs:487-489: the delay as a Duration of whole seconds
get_play_delay == play_delay_secs

\* service.rs:591-593: self.play_delay_secs.clone()
get_play_interval_secs == play_delay_secs

\* service.rs:499-501
get_test_play_duration == test_play_duration

\* service.rs:491-493
SvcSetPlayDelay(secs) ==
    /\ play_delay_secs' = secs
    /\ lastCall' = [op |-> "set_play_delay"]
    /\ UNCHANGED <<svcVars, crontab, soundbox, soundposts, play_mode,
                   play_interval_secs, test_play_duration, language,
                   queueVars, mqtt, gateVars, test_alarm, playVars,
                   cycleVars, appVars, ingestLog, published, now>>

\* service.rs:587-589
SvcSetPlayIntervalSecs(secs) ==
    /\ play_interval_secs' = secs
    /\ lastCall' = [op |-> "set_play_interval_secs"]
    /\ UNCHANGED <<svcVars, crontab, soundbox, soundposts, play_mode,
                   play_delay_secs, test_play_duration, language,
                   queueVars, mqtt, gateVars, test_alarm, playVars,
                   cycleVars, appVars, ingestLog, published, now>>

\* service.rs:503-505
SvcSetTestPlayDuration(secs) ==
    /\ test_play_duration' = secs
    /\ lastCall' = [op |-> "set_test_play_duration"]
    /\ UNCHANGED <<svcVars, crontab, soundbox, soundposts, play_mode,
                   play_delay_secs, play_interval_secs, language,
                   queueVars, mqtt, gateVars, test_alarm, playVars,
                   cycleVars, appVars, ingestLog, published, now>>

SvcGetPlayDelay ==
    /\ lastCall' = [op |-> "get_play_delay", ret |-> get_play_delay]
    /\ UNCHANGED <<svcVars, pipeVars, ingestLog, published, now>>

SvcGetPlayIntervalSecs ==
    /\ lastCall' = [op |-> "get_play_interval_secs",
                    ret |-> get_play_interval_secs]
    /\ UNCHANGED <<svcVars, pipeVars, ingestLog, published, now>>

SvcGetTestPlayDuration ==
    /\ lastCall' = [op |-> "get_test_play_duration",
                    ret |-> get_test_play_duration]
    /\ UNCHANGED <<svcVars, pipeVars, ingestLog, published, now>>

\* the setters and getters of the timing settings, in any order
TimingNext ==
    \/ \E secs \in Secs : SvcSetPlayDelay(secs)
    \/ \E secs \in Secs : SvcSetPlayIntervalSecs(secs)
    \/ \E secs \in Secs : SvcSetTestPlayDuration(secs)
    \/ SvcGetPlayDelay
    \/ SvcGetPlayIntervalSecs
    \/ SvcGetTestPlayDuration

SpecTiming == ServiceInit /\ [][TimingNext]_vars

(***************************************************************************)
(* The play records (service.rs:595-713).                                  *)
(***************************************************************************)
\* rows the record tables hold, and result messages published, in one run
MaxRecords == 1

\* the strings of get_record_id (task/play.rs:425-427) and of the
\* Uuid::new_v4 drawn inside play_record and test_play_record
RecordIds == {"u1", "u2"}

\* PlayResult (service.rs:735-741); play_type names the sink that played and
\* is None when neither the box nor a soundpost is enabled
PlayResults ==
    [ id : RecordIds, has_error : BOOLEAN, play_type : {None, "Box"},
      result_type : {"Normal", "Timeout", "AlarmArrived", "Terminated"} ]

\* the alarms a record is written for: an act alarm and the test alarm
RecordAlarms ==
    { Alarm([house_code |-> "g", target_name |-> "t"], 1, TRUE, FALSE, FALSE),
      TestAlarmNow }

\* what the database does with a row: it is stored, or self.db is None or
\* the insert fails, which the service only logs
DbOutcomes == {"inserted", "not_inserted"}

\* service.rs:620-635: the row play_record builds; source_message is the
\* JSON text of the alarm, kept as the alarm it encodes
alarm_play_record_Model(houses, alarm, result, uuid) ==
    [ table          |-> "alarm_play_record",
      id             |-> uuid,
      house_code     |-> alarm.house_code,
      house_name     |-> IF alarm.house_code \in DOMAIN houses
                         THEN houses[alarm.house_code].code ELSE None,
      receiver_name  |-> result.play_type,
      receiver_sign  |-> result.id,
      sending_state  |-> ~result.has_error,
      source_message |-> alarm ]

\* service.rs:595-644: result.play_type.unwrap() panics on None before the
\* row exists; the row is stored when the database is connected and the
\* insert succeeds
SvcPlayRecord(alarm, result, uuid, db) ==
    /\ Cardinality(play_records) + Len(published) < MaxRecords
    /\ IF result.play_type = None
       THEN /\ lastCall' = [op |-> "play_record", alarm |-> alarm,
                            result |-> result, ret |-> "panic"]
            /\ UNCHANGED play_records
       ELSE /\ lastCall' = [op |-> "play_record", alarm |-> alarm,
                            result |-> result, ret |-> "Ok"]
            /\ play_records' =
                 IF db = "inserted"
                 THEN play_records \cup
                        { alarm_play_record_Model(house_set, alarm, result,
                                                  uuid) }
                 ELSE play_records
    /\ UNCHANGED <<svcVars, cfgVars, queueVars, mqtt, gateVars, test_alarm,
                   play, box_tx, post_tx, sinks, cycleVars, appVars,
                   ingestLog, published, now>>

\* service.rs:673-684: the row test_play_record builds
test_alarm_play_record_Model(alarm, result, uuid) ==
    [ table       |-> "test_alarm_play_record",
      id          |-> uuid,
      test_type   |-> 1,
      media_file  |-> result.id,
      test_result |-> test_result(result.result_type),
      has_error   |-> result.has_error ]

\* service.rs:694-702: MqttPlayResp and the topic it is published on
MqttPlayResp(result) ==
    [ topic   |-> "ap/test_alarm/crontab/result",
      code    |-> 0,
      message |-> "Success",
      data    |-> [ result |-> test_result(result.result_type) ] ]

\* service.rs:646-713: the row is stored when the database is connected and
\* the insert succeeds; the message is published whatever the database did,
\* when the broker client is set (service.rs:232-236)
SvcTestPlayRecord(alarm, result, uuid, db, client) ==
    /\ Cardinality(play_records) + Len(published) < MaxRecords
    /\ lastCall' = [op |-> "test_play_record", alarm |-> alarm,
                    result |-> result, db |-> db, client |-> client]
    /\ play_records' =
         IF db = "inserted"
         THEN play_records \cup
                { test_alarm_play_record_Model(alarm, result, uuid) }
         ELSE play_records
    /\ published' =
         IF client THEN Append(published, MqttPlayResp(result)) ELSE published
    /\ UNCHANGED <<svcVars, cfgVars, queueVars, mqtt, gateVars, test_alarm,
                   play, box_tx, post_tx, sinks, cycleVars, appVars,
                   ingestLog, now>>

\* the record writers of the service, called with every result a playback
\* can hand them
RecordNext ==
    \/ \E alarm \in RecordAlarms, result \in PlayResults, uuid \in RecordIds,
          db \in DbOutcomes : SvcPlayRecord(alarm, result, uuid, db)
    \/ \E alarm \in RecordAlarms, result \in PlayResults, uuid \in RecordIds,
          db \in DbOutcomes, client \in BOOLEAN :
          SvcTestPlayRecord(alarm, result, uuid, db, client)

SpecRecord == ServiceInit /\ [][RecordNext]_vars

(***************************************************************************)
(* The RwLock around the state service (app.rs:25, Arc<RwLock<..>>).  A    *)
(* guard that lives only inside one step of a task is taken and dropped    *)
(* within that step; a guard that is alive across an await is a position   *)
(* of the task that holds it.                                              *)
(***************************************************************************)
\* task/play.rs:194-195 and 248-249: `service.write().await` is alive while
\* `play_record(..).await` awaits the insert (service.rs:630-640)
RecordPcs == {"test_record", "alarm_record"}

\* app.rs:150-151: the write guard is alive while init_alarm_set awaits
\* reqwest::get and the body (service.rs:385-390)
WriteGuardHeld == play.pc \in RecordPcs \/ app.pc = "fetching"

\* a write guard is held by a task that is suspended in an I/O
IoUnderGuard == WriteGuardHeld

\* task/real_time.rs:132-145: set_alarm under the write guard, then
\* get_play_delay under a read guard; a test alarm takes no guard
LockGateReceive ==
    /\ real_time_q # <<>>
    /\ Head(real_time_q).is_test \/ ~WriteGuardHeld
    /\ GateReceive

\* task/play.rs:154-177: the read guards of the player
LockPlayRecv == ~WriteGuardHeld /\ PlayRecv

\* task/play.rs:308-340 and 194, 394-423 and 248: every subtask is joined,
\* the write guard is acquired and play_record starts its insert
PlayRecordBegin ==
    /\ play.pc \in {"test_join", "alarm_join"}
    /\ \A s \in DOMAIN sinks : sinks[s].st # "running"
    /\ ~WriteGuardHeld
    /\ sinks' = [s \in DOMAIN sinks |-> [st |-> "idle", rx |-> None]]
    /\ play' = [play EXCEPT
                  !.pc = IF play.pc = "test_join" THEN "test_record"
                         ELSE "alarm_record"]
    /\ UNCHANGED <<svcVars, cfgVars, play_records, queueVars, mqtt, gateVars,
                   test_alarm, box_tx, post_tx, cycleVars, appVars, obsVars>>

\* task/play.rs:195-196 and 249-250: the insert returns, the guard is
\* dropped
PlayRecordEnd ==
    /\ play.pc \in RecordPcs
    /\ play_records' = play_record(play_records, play.alarm, play.result_type,
                                   play.has_error)
    /\ play' = IF play.pc = "test_record"
               THEN PlayIdle
               ELSE [play EXCEPT !.pc = "fwd"]
    /\ UNCHANGED <<svcVars, cfgVars, queueVars, mqtt, gateVars, test_alarm,
                   box_tx, post_tx, sinks, cycleVars, appVars, obsVars>>

\* app.rs:150-151 with service.rs:385-386: the write guard is acquired and
\* the request for the inventory is sent
AppFetch ==
    /\ app.pc = "init_alarm_set"
    /\ ~WriteGuardHeld
    /\ app' = [pc |-> "fetching"]
    /\ UNCHANGED <<svcVars, cfgVars, play_records, queueVars, mqtt, gateVars,
                   test_alarm, play, box_tx, post_tx, sinks, cycleVars,
                   notified, obsVars>>

\* service.rs:392-409 and app.rs:154-163: the inventory has arrived
AppFetched(items) ==
    /\ app.pc = "fetching"
    /\ alarm_set' = init_alarm_set(alarm_set, unmapped_cancel_set, items)
    /\ alarm_set_inited' = TRUE
    /\ cycle' = [cycle EXCEPT !.pc = "init"]
    /\ app' = [pc |-> "wait"]
    /\ UNCHANGED <<unmapped_cancel_set, house_set, is_alarm_paused, cfgVars,
                   play_records, queueVars, mqtt, gateVars, test_alarm, play,
                   box_tx, post_tx, sinks, alarms, notified, obsVars>>

\* service.rs:385-390 and app.rs:151-153: the request or the decoding
\* fails, the error is logged and app::run goes on
AppFetchFailed ==
    /\ app.pc = "fetching"
    /\ alarm_set_inited' = TRUE
    /\ cycle' = [cycle EXCEPT !.pc = "init"]
    /\ app' = [pc |-> "wait"]
    /\ UNCHANGED <<alarm_set, unmapped_cancel_set, house_set, is_alarm_paused,
                   cfgVars, play_records, queueVars, mqtt, gateVars,
                   test_alarm, play, box_tx, post_tx, sinks, alarms, notified,
                   obsVars>>

\* task/cycle.rs:25-28: get_alarms under a read guard
LockCycleInit == ~WriteGuardHeld /\ CycleInit

\* task/cycle.rs:79-82: get_alarm_status under a read guard
LockCyclePlay == ~WriteGuardHeld /\ CyclePlay

LockNext ==
    \/ \E alarm \in ActAlarms : MqttActAlarm(alarm)
    \/ MqttCancelTestPlay
    \/ LockGateReceive
    \/ GateAlarmToPlay
    \/ GateWait
    \/ LockPlayRecv
    \/ PlayBox
    \/ PlayPost
    \/ \E s \in DOMAIN sinks : SinkFinish(s)
    \/ PlayRecordBegin
    \/ PlayRecordEnd
    \/ PlayForward
    \/ AppFetch
    \/ \E items \in SnapshotLists : AppFetched(items)
    \/ AppFetchFailed
    \/ LockCycleInit
    \/ CycleRecv
    \/ CyclePush
    \/ LockCyclePlay
    \/ CycleSend

SpecLock == PipeInit /\ [][LockNext]_vars

(***************************************************************************)
(* The play delay of the gate against the wall clock                       *)
(* (task/real_time.rs:126-157).  The clock counts half milliseconds; a     *)
(* second of the configuration is scaled down to MsPerSec milliseconds.    *)
(***************************************************************************)
TicksPerMs == 2

MsPerSec == 2

MaxNow == 8

\* handler/act_alarm.rs:57: the handler stamps the alarm with the clock
Received(alarm, t) == alarm @@ [received_time |-> << t >>]

\* task/real_time.rs:127-130
alarm_time(alarm) ==
    IF alarm.received_time # <<>> THEN alarm.received_time[1]
    ELSE alarm.timestamp

\* service.rs:487-489: Duration::seconds(play_delay_secs), on the clock
play_delay_ticks == get_play_delay * MsPerSec * TicksPerMs

\* task/real_time.rs:147
play_time(alarm) == alarm_time(alarm) + play_delay_ticks

\* task/real_time.rs:150-151: Duration::from_millis of the whole
\* milliseconds between the clock and the play time
delay(alarm, current_time) ==
    ((play_time(alarm) - current_time) \div TicksPerMs) * TicksPerMs

\* the clock advances
ClockTick ==
    /\ now < MaxNow
    /\ now' = now + 1
    /\ UNCHANGED <<svcVars, pipeVars, lastCall, ingestLog, published>>

\* handler/act_alarm.rs:47-68 with the received time
DelayActAlarm(alarm) == MqttActAlarm(Received(alarm, now))

\* task/real_time.rs:34-48, 70-78 and 118-153: an act alarm is received and
\* processed up to the sleep, or up to alarm_to_play when no sleep is due
GateReceiveTimed ==
    /\ realtime.pc \in {"top", "recv"}
    /\ real_time_q # <<>>
    /\ real_time_q' = Tail(real_time_q)
    /\ LET alarm == Head(real_time_q)
           r     == set_alarm(alarm_set, unmapped_cancel_set, alarm)
       IN /\ ~alarm.is_test
          /\ alarm_set' = r.alarm_set
          /\ unmapped_cancel_set' = r.unmapped_cancel_set
          /\ realtime' =
               IF ~r.ret
               THEN [realtime EXCEPT !.pc = "top"]
               ELSE IF play_time(alarm) > now
               THEN [pc |-> "sleep", alarm |-> alarm,
                     test_alarm |-> realtime.test_alarm,
                     wake |-> now + delay(alarm, now)]
               ELSE [realtime EXCEPT !.pc = "delay", !.alarm = alarm]
    /\ UNCHANGED <<house_set, is_alarm_paused, alarm_set_inited, cfgVars,
                   play_records, player_q, cycle_q, ct_q, mqtt, retry_tasks,
                   test_alarm, play, box_tx, post_tx, sinks, cycleVars,
                   appVars, obsVars>>

\* task/real_time.rs:153: tokio::time::sleep returns once the duration has
\* elapsed
GateWake ==
    /\ realtime.pc = "sleep"
    /\ now >= realtime.wake
    /\ realtime' = [pc |-> "delay", alarm |-> realtime.alarm,
                    test_alarm |-> realtime.test_alarm]
    /\ UNCHANGED <<svcVars, cfgVars, play_records, queueVars, mqtt,
                   retry_tasks, test_alarm, play, box_tx, post_tx, sinks,
                   cycleVars, appVars, obsVars>>

DelayNext ==
    \/ ClockTick
    \/ \E alarm \in RaiseAlarms : DelayActAlarm(alarm)
    \/ MqttCancelTestPlay
    \/ GateReceiveTimed
    \/ GateWake
    \/ GateAlarmToPlay
    \/ GateWait
    \/ PlayRecv

SpecDelay == PipeInit /\ [][DelayNext]_vars

(***************************************************************************)
(* Claims about the state service.                                         *)
(***************************************************************************)
HasEntryForId(aset, id) ==
    \E k \in DOMAIN aset : AlarmIdOf(aset[k]) = id

\* C1: when exactly two alarms a1, a2 of one identity key with
\* a1.timestamp < a2.timestamp have been ingested by set_alarm, in either
\* order, the ongoing-alarm set holds under that key nothing or a2, and
\* nothing when a2 is a clear.
C1_TwoAlarmsKeepNewest ==
    Len(ingestLog) = 2 =>
      \A i, j \in 1..2 :
        LET a1  == ingestLog[i]
            a2  == ingestLog[j]
            key == get_alarm_set_key(a2)
        IN (/\ AlarmIdOf(a1) = AlarmIdOf(a2)
            /\ a1.timestamp < a2.timestamp)
           => /\ key \in DOMAIN alarm_set => alarm_set[key] = a2
              /\ ~a2.is_alarm => key \notin DOMAIN alarm_set

\* C2: set_alarm(a) returns true exactly when a is a raise and either no
\* entry existed for a's key or the existing entry was strictly older, and
\* then a is the entry stored for the key; otherwise it returns false.
C2_SetAlarmTrueIffNewer ==
    [][\A a \in IngestAlarms :
         SvcSetAlarm(a) =>
           LET key == get_alarm_set_key(a) IN
           /\ lastCall'.ret <=>
                 /\ a.is_alarm
                 /\ \/ key \notin DOMAIN alarm_set
                    \/ alarm_set[key].timestamp < a.timestamp
           /\ lastCall'.ret =>
                 key \in DOMAIN alarm_set' /\ alarm_set'[key] = a]_vars

EntryConfirmed(alarm) ==
    LET key == get_alarm_set_key(alarm) IN
    /\ key \in DOMAIN alarm_set
    /\ alarm_set[key].timestamp = alarm.timestamp
    /\ alarm_set[key].is_confirmed

\* play_record has written a row for the alarm
Played(alarm) == \E r \in play_records : r.alarm = alarm

\* C4: once a raise has been played and is cycling and a confirmation with
\* is_confirmed = true has been applied to its entry, every status check of
\* that alarm by the cycle repeater and by the player returns Paused, and
\* the player starts no playback of it.
C4_ConfirmedCyclingAlarmPaused ==
    [][ /\ ( /\ cycle.pc = "select"
             /\ cycle'.pc = "sleep"
             /\ Played(cycle'.alarm)
             /\ EntryConfirmed(cycle'.alarm) )
           => cycle'.alarm_status = "Paused"
        /\ ( /\ play.pc = "recv"
             /\ play'.pc \notin {"recv", "done"}
             /\ ~play'.alarm.is_test
             /\ Played(play'.alarm)
             /\ EntryConfirmed(play'.alarm) )
           => (play'.alarm_status = "Paused" /\ play'.pc = "fwd") ]_vars

\* C5: whenever the gate makes a test alarm reach the player channel,
\* directly or through a deferred retry, at that moment no act alarm is
\* queued on the gate input and is_ongoing_alarm_exist() is false.
C5_TestAlarmReachesPlayerWhenIdle ==
    [][ ( /\ Len(player_q') = Len(player_q) + 1
          /\ player_q'[Len(player_q')].is_test )
        => /\ \A i \in DOMAIN real_time_q : real_time_q[i].is_test
           /\ ~is_ongoing_alarm_exist(alarm_set) ]_vars

\* C6: at every instant the queue of the cycle repeater holds at most one
\* alarm per identity key.
C6_CycleQueueOnePerKey ==
    \A i, j \in DOMAIN alarms :
        i # j => AlarmIdOf(alarms[i]) # AlarmIdOf(alarms[j])

\* C7: without shutdown, an alarm the cycle tick popped with a status other
\* than Canceled leaves the tick only by being emitted, once, on the player
\* channel, whatever arrives while the tick sleeps or sends.
C7_PoppedAlarmEmitted ==
    [][ (cycle.pc = "sleep" /\ cycle'.pc # "sleep")
           => player_q' = Append(player_q, cycle.alarm) ]_vars

\* C8: once the shutdown notification has been broadcast, in whatever state
\* the tasks are, the router, the gate, the cycle repeater, the test
\* scheduler and the player all return: the join of app::run completes and
\* the application exits.
C8_ShutdownCompletes == (app.pc = "join") ~> (app.pc = "exited")

\* C9: when cancel_test_play is invoked while a test playback is in
\* progress (from the start of play_test until its subtasks are joined),
\* every sink subtask of that playback that has not finished yet has the
\* cancel signal in its channel: none is lost because the handle of a
\* subtask was not registered yet.
C9_CancelReachesEverySink ==
    [][ ( /\ mqtt.pc = "act_cancel"
          /\ mqtt'.pc = "poll"
          /\ play.pc \in TestPcs )
        => /\ play.sbox.enabled
                => (sinks.box.st = "finished" \/ sinks'.box.rx = "AlarmArrived")
           /\ play.posts.device_ids # {}
                => (sinks.post.st = "finished" \/ sinks'.post.rx = "AlarmArrived")
      ]_vars

\* C10: after terminate_play has been invoked the player starts no new
\* playback, test or alarm, until its task exits, even when alarms are
\* still queued on the play channel.
C10_NoPlaybackAfterTerminate ==
    [][ app.pc = "await_play"
          => ~(play.pc = "recv" /\ play'.pc \in {"test_box", "alarm_box"}) ]_vars

\* C11: when the shutdown sequence reaches the player (terminate_play) while
\* a test playback is in progress, every sink subtask of that playback that
\* has not finished yet is sent Canceled(Terminated), and the record
\* persisted for a test playback whose subtask stopped on Terminated is a
\* test_play_record with test_result = 5.
C11_ShutdownTerminatesTestPlayback ==
    [][ /\ ( /\ app.pc = "join"
             /\ app'.pc = "await_play"
             /\ play.pc \in TestPcs )
           => /\ play.sbox.enabled
                   => (sinks.box.st = "finished" \/ sinks'.box.rx = "Terminated")
              /\ play.posts.device_ids # {}
                   => (sinks.post.st = "finished" \/ sinks'.post.rx = "Terminated")
        /\ ( /\ play.pc = "test_join"
             /\ play'.pc = "recv"
             /\ \E s \in DOMAIN sinks : sinks[s].rx = "Terminated" )
           => \E r \in play_records' :
                 /\ r.alarm = play.alarm
                 /\ r.table = "test_alarm_play_record"
                 /\ r.test_result = 5
      ]_vars

\* C12: every alarm with is_test = true the player receives, whatever its
\* status, starts a test playback; when that playback is joined a
\* test_play_record, and no play_record, is persisted for it; and no test
\* alarm is ever sent on the cycle channel.
C12_TestAlarmRunsTestPath ==
    [][ /\ ( /\ play.pc = "recv"
             /\ player_q # <<>>
             /\ Head(player_q).is_test
             /\ player_q' = Tail(player_q) )
           => (play'.pc = "test_box" /\ play'.alarm = Head(player_q))
        /\ ( play.pc = "test_join" /\ play'.pc # "test_join" )
           => play_records' =
                 test_play_record(play_records, play.alarm, play.result_type)
        /\ Len(cycle_q') > Len(cycle_q)
           => ~cycle_q'[Len(cycle_q')].is_test
      ]_vars

\* C13: for an alarm a whose status is not Canceled, get_alarm_status(a) is
\* Paused exactly when the global pause is set, or a.is_confirmed, or a's
\* house exists with is_empty_mode true and enabled false, and Playable
\* otherwise; when a is cancelled (nothing stored under its key and not a
\* test, or a newer entry stored) the status is Canceled even if a pause
\* condition holds.
C13_PausedIffPauseConfirmedOrHouse ==
    lastCall.op = "get_alarm_status" =>
      LET a        == lastCall.arg
          key      == get_alarm_set_key(a)
          canceled == \/ ~a.is_test /\ key \notin DOMAIN alarm_set
                      \/ /\ key \in DOMAIN alarm_set
                         /\ alarm_set[key].timestamp > a.timestamp
          pausing  == \/ is_alarm_paused
                      \/ a.is_confirmed
                      \/ /\ a.house_code \in DOMAIN house_set
                         /\ house_set[a.house_code].is_empty_mode
                         /\ ~house_set[a.house_code].enabled
      IN /\ canceled => lastCall.ret = "Canceled"
         /\ lastCall.ret # "Canceled"
              => /\ lastCall.ret = "Paused" <=> pausing
                 /\ lastCall.ret = "Playable" <=> ~pausing

\* the status of an ongoing, unconfirmed alarm was asked for with the global
\* pause off and its house known but neither empty-and-disabled: Playable
\* although the house is disabled
C13_DisabledOccupiedHousePlayable ==
    /\ lastCall.op = "get_alarm_status"
    /\ lastCall.ret = "Playable"
    /\ ~lastCall.arg.is_test
    /\ lastCall.arg.house_code \in DOMAIN house_set
    /\ ~house_set[lastCall.arg.house_code].enabled
    /\ ~house_set[lastCall.arg.house_code].is_empty_mode

\* C14: set_alarm with a clear whose timestamp is greater than or equal to
\* the timestamp of the raise stored under its key removes that entry from
\* the ongoing-alarm set and returns false; a clear with exactly the stored
\* timestamp included.
C14_ClearNotOlderRemovesEntry ==
    [][\A a \in IngestAlarms :
         LET key == get_alarm_set_key(a) IN
         ( /\ SvcSetAlarm(a)
           /\ ~a.is_alarm
           /\ key \in DOMAIN alarm_set
           /\ a.timestamp >= alarm_set[key].timestamp )
         => /\ key \notin DOMAIN alarm_set'
            /\ ~lastCall'.ret]_vars

\* C15: set_alarm with an alarm, raise or clear, whose timestamp is strictly
\* older than the entry stored under its key returns false and leaves the
\* ongoing-alarm set and the unmapped-cancel set as they were.
C15_StaleAlarmChangesNothing ==
    [][\A a \in IngestAlarms :
         LET key == get_alarm_set_key(a) IN
         ( /\ IngestSetAlarm(a)
           /\ key \in DOMAIN alarm_set
           /\ a.timestamp < alarm_set[key].timestamp )
         => /\ ~lastCall'.ret
            /\ alarm_set' = alarm_set
            /\ unmapped_cancel_set' = unmapped_cancel_set]_vars

\* the last alarm handed to set_alarm was a clear older than the raise stored
\* under its key, and it was rejected
C15_StaleClearRejected ==
    /\ Len(ingestLog) >= 2
    /\ LET a   == ingestLog[Len(ingestLog)]
           key == get_alarm_set_key(a)
       IN /\ ~a.is_alarm
          /\ key \in DOMAIN alarm_set
          /\ a.timestamp < alarm_set[key].timestamp
          /\ ~lastCall.ret

C17_OnlyLatestTestAlarmEmitted ==
    [][ ( /\ Len(player_q') > Len(player_q)
          /\ player_q'[Len(player_q')].is_test )
        => /\ retry_tasks'.tasks = <<>>
           /\ realtime'.test_alarm = Nil ]_vars

\* the player takes the non-test alarm at the head of its channel
PlayerTakes ==
    /\ play.pc = "recv"
    /\ player_q # <<>>
    /\ player_q' = Tail(player_q)
    /\ ~Head(player_q).is_test

StatusAtPlayer ==
    get_alarm_status(alarm_set, house_set, is_alarm_paused, Head(player_q))

\* C18: a non-test alarm the player receives with status Canceled is
\* dropped: no playback, no record, not forwarded.  With status Paused it is
\* forwarded to the cycle channel, once, with no playback and no record.  A
\* playback is started only when the status is Playable, and a record is
\* written only when a playback is joined.
C18_PlayerDropsForwardsOrPlays ==
    [][ /\ ( PlayerTakes /\ StatusAtPlayer = "Canceled" )
           => /\ play' = PlayIdle
              /\ cycle_q' = cycle_q
              /\ play_records' = play_records
        /\ ( PlayerTakes /\ StatusAtPlayer = "Paused" )
           => /\ play'.pc = "fwd"
              /\ play'.alarm = Head(player_q)
              /\ play_records' = play_records
        /\ ( play.pc = "fwd" /\ play.alarm_status = "Paused" /\ play' # play )
           => /\ cycle_q' = Append(cycle_q, play.alarm)
              /\ play' = PlayIdle
              /\ play_records' = play_records
        /\ ( PlayerTakes /\ play'.pc = "alarm_box" )
           => StatusAtPlayer = "Playable"
        /\ ( play'.pc = "alarm_box" /\ play.pc # "alarm_box" )
           => PlayerTakes
        /\ play_records' # play_records
           => play.pc \in {"test_join", "alarm_join"}
      ]_vars

\* a paused raise went through the player to the cycle channel: it is
\* waiting there, the player is idle again, and nothing was played
C18_PausedAlarmForwarded ==
    /\ cycle_q # <<>>
    /\ ~cycle_q[1].is_test
    /\ get_alarm_status(alarm_set, house_set, is_alarm_paused, cycle_q[1])
          = "Paused"
    /\ play = PlayIdle
    /\ play_records = {}

Accepted(a) == realtime.pc = "delay" /\ realtime.alarm = a

\* the raise has been played and recorded, its key is ongoing, and the
\* player has put it on the cycle channel
PlayedAndForwarded(a) ==
    /\ Played(a)
    /\ get_alarm_set_key(a) \in DOMAIN alarm_set
    /\ \E i \in DOMAIN cycle_q : cycle_q[i] = a

\* the entry stored under the raise's key is a newer raise
Superseded(a) ==
    /\ get_alarm_set_key(a) \in DOMAIN alarm_set
    /\ alarm_set[get_alarm_set_key(a)].timestamp > a.timestamp

C21_RecordRowCarriesResultId ==
    ( /\ lastCall.op = "play_record"
      /\ ~lastCall.alarm.is_test
      /\ ~lastCall.result.has_error
      /\ lastCall.result.result_type = "Normal" )
    => \E r \in play_records :
          /\ r.table = "alarm_play_record"
          /\ r.id = lastCall.result.id

\* C22: test_play_record maps the result_type of the playback to the
\* test_result code Normal -> 3, Timeout -> 3, Canceled(AlarmArrived) -> 4,
\* Canceled(Terminated) -> 5, and the row it stores and the result message it
\* publishes both carry that code.
C22_TestResultCodeInRowAndMessage ==
    [][ lastCall'.op = "test_play_record" =>
          LET rt   == lastCall'.result.result_type
              code == CASE rt = "Normal" -> 3
                        [] rt = "Timeout" -> 3
                        [] rt = "AlarmArrived" -> 4
                        [] rt = "Terminated" -> 5
          IN
          /\ \A r \in play_records' \ play_records :
                r.table = "test_alarm_play_record" /\ r.test_result = code
          /\ lastCall'.db = "inserted" =>
                \E r \in play_records' :
                   /\ r.table = "test_alarm_play_record"
                   /\ r.media_file = lastCall'.result.id
                   /\ r.test_result = code
          /\ IF lastCall'.client
             THEN /\ Len(published') = Len(published) + 1
                  /\ published'[Len(published')].topic =
                        "ap/test_alarm/crontab/result"
                  /\ published'[Len(published')].data.result = code
             ELSE published' = published ]_vars

\* a test interrupted by an alarm is stored and published with code 4
C22_InterruptedTestStoredAndPublished ==
    /\ lastCall.op = "test_play_record"
    /\ lastCall.result.result_type = "AlarmArrived"
    /\ \E r \in play_records :
          r.table = "test_alarm_play_record" /\ r.test_result = 4
    /\ published # <<>>
    /\ published[Len(published)].data.result = 4

(***************************************************************************)
(* Claims about the cancellation handles.                                  *)
(***************************************************************************)
TestHandle(s) == IF s = "box" THEN box_tx.test_tx ELSE post_tx.test_tx

AlarmHandle(s) == IF s = "box" THEN box_tx.alarm_tx ELSE post_tx.alarm_tx

\* the router runs cancel_test_play in this step
CancelTestPlayStep == mqtt.pc = "act_cancel" /\ mqtt'.pc = "poll"

\* C23: invoking cancel_test_play twice during one test playback delivers at
\* most one cancel signal to each test sink subtask: the call that signals a
\* subtask takes its handle, so a subtask that has been signalled has no
\* registered handle left, and a later call finds none and sends nothing.
C23_CancelTestPlayIdempotent ==
    /\ [](\A s \in DOMAIN sinks :
            ( /\ play.pc \in TestPcs
              /\ sinks[s].st = "running"
              /\ sinks[s].rx # None ) => ~TestHandle(s))
    /\ [][ CancelTestPlayStep =>
             /\ ~box_tx'.test_tx
             /\ ~post_tx'.test_tx
             /\ \A s \in DOMAIN sinks :
                   IF /\ TestHandle(s)
                      /\ play.pc \in TestPcs
                      /\ sinks[s].st = "running"
                   THEN /\ sinks[s].rx = None
                        /\ sinks'[s] = [st |-> "running", rx |-> "AlarmArrived"]
                   ELSE sinks'[s] = sinks[s] ]_vars

\* the second alarm message of a test playback is about to call
\* cancel_test_play while the box subtask, signalled by the first call, still
\* runs
C23_SecondCancelDuringTestPlayback ==
    /\ mqtt.pc = "act_cancel"
    /\ mqtt.n = 2
    /\ play.pc \in TestPcs
    /\ sinks.box = [st |-> "running", rx |-> "AlarmArrived"]
    /\ ~box_tx.test_tx

\* app::run calls terminate_play in this step
TerminatePlayStep == app.pc = "join" /\ app'.pc = "await_play"

\* the subtask s of the playback in progress runs and its handle is
\* registered
Reachable(s) ==
    /\ sinks[s].st = "running"
    /\ \/ play.pc \in TestPcs /\ TestHandle(s)
       \/ play.pc \in AlarmPcs /\ AlarmHandle(s)

\* C24: cancel_test_play never delivers a signal to a subtask of an alarm
\* playback and leaves the alarm handles as they are; terminate_play takes
\* every registered handle, test and alarm, of both sinks, and every running
\* subtask whose handle was registered receives Terminated.
C24_CancelTestPlayFrameTerminateAll ==
    [][ /\ CancelTestPlayStep =>
             /\ box_tx'.alarm_tx = box_tx.alarm_tx
             /\ post_tx'.alarm_tx = post_tx.alarm_tx
             /\ play.pc \in AlarmPcs => sinks' = sinks
        /\ TerminatePlayStep =>
             /\ box_tx' = [test_tx |-> FALSE, alarm_tx |-> FALSE]
             /\ post_tx' = [test_tx |-> FALSE, alarm_tx |-> FALSE]
             /\ \A s \in DOMAIN sinks :
                   IF Reachable(s)
                   THEN sinks'[s] = [st |-> "running", rx |-> "Terminated"]
                   ELSE sinks'[s] = sinks[s] ]_vars

\* terminate_play has signalled both subtasks of the playback of a raise,
\* whose handles an earlier cancel_test_play had left registered
C24_TerminateReachedBothAlarmSinks ==
    /\ app.pc = "await_play"
    /\ mqtt.n = 1
    /\ play.pc = "alarm_join"
    /\ sinks.box = [st |-> "running", rx |-> "Terminated"]
    /\ sinks.post = [st |-> "running", rx |-> "Terminated"]
    /\ ~box_tx.alarm_tx
    /\ ~post_tx.alarm_tx

(***************************************************************************)
(* Claims about the test scheduler.                                        *)
(***************************************************************************)
\* the scheduler takes a config with play_now = true in this step
PlayNowConfigStep ==
    /\ ct_q # <<>>
    /\ ct_q' = Tail(ct_q)
    /\ Head(ct_q).play_now

\* the test alarms among the messages of a queue
TestAlarmsIn(q) == Cardinality({ i \in DOMAIN q : q[i].is_test })

\* C25: on a test config with play_now = true, if an ongoing alarm exists no
\* test alarm is enqueued and one result message with code 1 is published on
\* ap/test_alarm/crontab/result; otherwise exactly one test alarm is enqueued
\* (the scheduler does nothing else until its send completes) and no code-1
\* message is published.  In both cases the stored crontab and the test
\* duration are left unchanged.
C25_PlayNowRefusedOrEnqueuedOnce ==
    [][ /\ PlayNowConfigStep =>
             /\ IF DOMAIN alarm_set # {}
                THEN /\ published' =
                          Append(published,
                                 [topic |-> "ap/test_alarm/crontab/result",
                                  code |-> 1])
                     /\ real_time_q' = real_time_q
                     /\ test_alarm'.pc = "select"
                ELSE /\ published' = published
                     /\ test_alarm'.pc = "play_now"
             /\ crontab' = crontab
             /\ test_play_duration' = test_play_duration
             /\ test_alarm'.crontab = test_alarm.crontab
        /\ test_alarm.pc = "play_now" =>
             /\ published' = published
             /\ crontab' = crontab
             /\ test_play_duration' = test_play_duration
             /\ Len(ct_q') >= Len(ct_q)
             /\ IF test_alarm'.pc = "play_now"
                THEN TestAlarmsIn(real_time_q') <= TestAlarmsIn(real_time_q)
                ELSE /\ test_alarm'.pc = "select"
                     /\ real_time_q' = Append(real_time_q, TestAlarmNow) ]_vars

\* an immediate test was refused while a raise was ongoing: the code-1
\* result is out and no test alarm is anywhere before the player
C25_ImmediateTestRefused ==
    /\ DOMAIN alarm_set # {}
    /\ published # <<>>
    /\ published[Len(published)].code = 1
    /\ test_alarm.pc = "select"
    /\ ct_q = <<>>
    /\ TestAlarmsIn(real_time_q) = 0
    /\ realtime.test_alarm = Nil

AlarmMessageStep == mqtt.pc = "poll" /\ mqtt'.n = mqtt.n + 1

\* what cancel_test_play leaves behind: no test handle registered
TestHandlesTaken == ~box_tx'.test_tx /\ ~post_tx'.test_tx

C28_PauseCancelsAlarmPlayback ==
    [][ /\ mqtt.pc = "farm_config" /\ mqtt'.pc # "farm_config" =>
             /\ is_alarm_paused' =
                   IF mqtt.fc.pause = <<>> THEN is_alarm_paused
                   ELSE mqtt.fc.pause[1]
             /\ mqtt'.pc = IF mqtt.fc.pause = <<TRUE>> THEN "farm_cancel"
                           ELSE "farm_rest"
             /\ UNCHANGED <<box_tx, post_tx, sinks, language, soundbox>>
        /\ ( /\ mqtt.pc = "farm_cancel"
             /\ mqtt'.pc # "farm_cancel"
             /\ play.pc \in AlarmPcs ) =>
               /\ play.sbox.enabled =>
                    (sinks.box.st = "finished" \/ sinks'.box.rx # None)
               /\ play.posts.device_ids # {} =>
                    (sinks.post.st = "finished" \/ sinks'.post.rx # None)
        /\ mqtt.pc = "farm_rest" /\ mqtt'.pc # "farm_rest" =>
             /\ language' =
                   IF mqtt.fc.lang = None THEN language ELSE mqtt.fc.lang
             /\ soundbox' = IF mqtt.fc.enable_box = <<>> THEN soundbox
                            ELSE [enabled |-> mqtt.fc.enable_box[1]]
             /\ UNCHANGED <<is_alarm_paused, box_tx, post_tx, sinks>>
      ]_vars

(***************************************************************************)
(* Claims about the settings and the bootstrap of the service.             *)
(***************************************************************************)
\* C29: get_play_interval_secs() returns the play interval given at
\* construction or by the latest set_play_interval_secs, whatever
\* set_play_delay has stored; get_play_delay() and get_test_play_duration()
\* likewise return their own field.
C29_GettersReturnOwnField ==
    /\ lastCall.op = "get_play_interval_secs" =>
          lastCall.ret = play_interval_secs
    /\ lastCall.op = "get_play_delay" => lastCall.ret = play_delay_secs
    /\ lastCall.op = "get_test_play_duration" =>
          lastCall.ret = test_play_duration

\* the entry the snapshot holds for a key: the item inserted last under it
SnapshotKeys(items) == { get_alarm_set_key(items[i]) : i \in DOMAIN items }

SnapshotEntry(items, k) ==
    LET last == CHOOSE i \in DOMAIN items :
                    /\ get_alarm_set_key(items[i]) = k
                    /\ \A j \in DOMAIN items :
                          get_alarm_set_key(items[j]) = k => j <= i
    IN items[last]

\* C30: a clear handed to set_alarm while its key has no ongoing entry is
\* stored in the unmapped-cancel set under that key, the ongoing set stays
\* as it was and set_alarm returns false; after init_alarm_set the snapshot
\* entry of a key k is in the ongoing set if and only if the unmapped-cancel
\* set holds no clear for k with a strictly greater timestamp.
C30_ClearBufferedAndAppliedAtBootstrap ==
    [][ /\ \A a \in IngestAlarms :
             LET key == get_alarm_set_key(a) IN
             ( /\ ~a.is_alarm
               /\ key \notin DOMAIN alarm_set
               /\ SvcSetAlarm(a) )
             => /\ key \in DOMAIN unmapped_cancel_set'
                /\ unmapped_cancel_set'[key] = a
                /\ alarm_set' = alarm_set
                /\ lastCall'.ret = FALSE
        /\ ( /\ lastCall'.op = "init_alarm_set"
             /\ SvcInitAlarmSet(lastCall'.arg) )
           => LET items == lastCall'.arg IN
              \A k \in SnapshotKeys(items) :
                 LET entry == SnapshotEntry(items, k) IN
                 ( /\ k \in DOMAIN alarm_set'
                   /\ alarm_set'[k] = entry )
                 <=> ~( /\ k \in DOMAIN unmapped_cancel_set
                        /\ unmapped_cancel_set[k].timestamp > entry.timestamp )
      ]_vars

\* the bootstrap met a buffered clear of exactly the timestamp of the
\* snapshot entry of its key, and the entry is in the ongoing set
C30_SnapshotEntryKeptBesideEqualClear ==
    /\ lastCall.op = "init_alarm_set"
    /\ \E k \in SnapshotKeys(lastCall.arg) :
          /\ k \in DOMAIN unmapped_cancel_set
          /\ ~unmapped_cancel_set[k].is_alarm
          /\ unmapped_cancel_set[k].timestamp =
                SnapshotEntry(lastCall.arg, k).timestamp
          /\ k \in DOMAIN alarm_set
          /\ alarm_set[k] = SnapshotEntry(lastCall.arg, k)

(***************************************************************************)
(* Claims about the lock, the play delay and the life of an alarm.         *)
(***************************************************************************)
\* C31: no task is suspended in an HTTP fetch, a database insert or a broker
\* publish while it holds a read or write guard on the state service, so
\* that no status read of another task waits for the duration of such an
\* I/O.
C31_NoIoUnderServiceGuard == ~IoUnderGuard

\* C32: the gate never sends an act alarm to the player before the clock
\* has reached received_time + play_delay; when the clock is already there
\* at the time the alarm is processed, the gate goes to the send without
\* sleeping.
C32_EmittedNotBeforePlayTime ==
    [][ /\ GateAlarmToPlay => now >= play_time(realtime.alarm)
        /\ ( /\ GateReceiveTimed
             /\ realtime'.pc # "top"
             /\ play_time(Head(real_time_q)) <= now )
           => realtime'.pc = "delay"
      ]_vars

\* a sink subtask of an alarm playback is spawned in this step
AlarmPlaybackStarts ==
    /\ play.pc \in {"alarm_box", "alarm_post"}
    /\ \E s \in DOMAIN sinks :
          sinks[s].st # "running" /\ sinks'[s].st = "running"

\* C33: while the key of an alarm is absent from the ongoing set because a
\* clear has removed it and no later raise has put it back, the player
\* starts no playback for that key, and an instance of the key that the
\* cycle repeater pops from its queue is dropped: it is not sent to the
\* player.
C33_ClearedAlarmNeitherPlayedNorRepeated ==
    [][ /\ AlarmPlaybackStarts =>
             get_alarm_set_key(play.alarm) \in DOMAIN alarm_set
        /\ ( /\ CyclePlay
             /\ get_alarm_set_key(Head(alarms)) \notin DOMAIN alarm_set )
           => /\ cycle' = CycleIdle
              /\ player_q' = player_q
      ]_vars

\* the gate is suspended in the play delay of the alarm while the clear of
\* the alarm (same key, greater timestamp) waits on the act channel
ClearedInDelay(a) ==
    /\ realtime.pc = "delay"
    /\ realtime.alarm = a
    /\ \E i \in DOMAIN real_time_q :
          /\ ~real_time_q[i].is_alarm
          /\ get_alarm_set_key(real_time_q[i]) = get_alarm_set_key(a)
          /\ real_time_q[i].timestamp > a.timestamp

\* a sink subtask plays the alarm
Playing(a) ==
    /\ play.pc \in AlarmPcs
    /\ play.alarm = a
    /\ \E s \in DOMAIN sinks : sinks[s].st = "running"

\* C37: when the clear of an alarm (same key, greater timestamp) is put on
\* the act channel while the gate is suspended in the play delay of that
\* alarm, the alarm is never played from then on, however the gate and the
\* player interleave once the delay is over.
C37_ClearedDuringDelayNeverPlayed ==
    \A a \in RaiseAlarms : [](ClearedInDelay(a) => [](~Playing(a)))

(***************************************************************************)
(* Claims about the results of the sink subtasks.                          *)
(***************************************************************************)
JoinPcs == {"test_join", "alarm_join"}

\* the coordinator leaves the join of a playback in this step
JoinStep == play.pc \in JoinPcs /\ play'.pc \notin JoinPcs

OneSinkFailed ==
    \E s \in DOMAIN sinks :
       /\ sinks[s].st = "failed"
       /\ \A o \in DOMAIN sinks \ {s} : sinks[o].st = "finished"

CanceledWith == { sinks[s].rx : s \in { t \in DOMAIN sinks :
                        sinks[t].st = "finished" /\ sinks[t].rx # None } }

\* C36: the result_type of a playback is Canceled(c) whenever at least one
\* of its sink subtasks ended Canceled(c), in whatever order the subtasks
\* finish; it is Normal only when no subtask was canceled.
C36_CanceledSinkDecidesResultType ==
    [][ JoinStep =>
          /\ CanceledWith # {} => play.result_type \in CanceledWith
          /\ play.result_type = "Normal" => CanceledWith = {}
      ]_vars

(***************************************************************************)
(* Claims about the alarms between the player and the cycle repeater.      *)
(***************************************************************************)
SameInstance(a, b) ==
    /\ a # Nil
    /\ b # Nil
    /\ get_alarm_set_key(a) = get_alarm_set_key(b)
    /\ a.timestamp = b.timestamp

CountIn(q, a) == Cardinality({ i \in DOMAIN q : SameInstance(q[i], a) })

Holds(slot, a) == IF SameInstance(slot, a) THEN 1 ELSE 0

\* how often the instance is in the play channel, the player, the cycle
\* channel and the cycle repeater with its queue
Occurrences(a) ==
    CountIn(player_q, a) + Holds(play.alarm, a) + CountIn(cycle_q, a)
    + Holds(cycle.alarm, a) + CountIn(alarms, a)

\* C35: every ongoing alarm instance (key and timestamp) is at most once in
\* the play channel, the player, the cycle channel and the cycle queue
\* taken together; an alarm the gate has ingested before Cycle::init reads
\* the ongoing set is not put into the cycle queue a second time.
C35_OngoingInstanceAtMostOnce ==
    \A k \in DOMAIN alarm_set : Occurrences(alarm_set[k]) <= 1

(***************************************************************************)
(* Claims about the bootstrap.                                             *)
(***************************************************************************)
\* C38: init_alarm_set never replaces an entry of the ongoing set that a
\* live alarm message has set by a snapshot entry of the same key with an
\* older timestamp: a key that has an entry before and after the bootstrap
\* holds a timestamp that is not older than before.
C38_BootstrapKeepsNewerLiveEntry ==
    [][ \A items \in SeqsUpTo(SnapshotAlarms, MaxItems) :
          SvcInitAlarmSet(items) =>
            \A k \in DOMAIN alarm_set \cap DOMAIN alarm_set' :
               alarm_set'[k].timestamp >= alarm_set[k].timestamp ]_vars

(***************************************************************************)
(* Claims about the ring of the player and the cycle repeater.             *)
(***************************************************************************)
\* task/play.rs:251: the player waits in alarm_tx.send on a full cycle
\* channel
PlayerBlockedOnCycle == play.pc = "fwd" /\ ~Room(cycle_q, CycleSize)

\* task/cycle.rs:92: the repeater holds an alarm for the player while the
\* player channel is full
CycleBlockedOnPlayer == cycle.pc = "sleep" /\ ~Room(player_q, PlayerSize)

RingSteps == PlayerSteps \/ CycleSteps

\* C39: the ring of the player and the cycle repeater does not deadlock: in
\* no reachable state is the player blocked in its send on a full cycle
\* channel and the repeater blocked in its send on a full player channel
\* with neither of the two able to take a step.
C39_RingNeverDeadlocks ==
    ~( /\ PlayerBlockedOnCycle
       /\ CycleBlockedOnPlayer
       /\ ~ENABLED RingSteps )

\* both channels of the ring are full, the player waits to forward and the
\* repeater holds an alarm for the player
C39_BothSendsBlocked == PlayerBlockedOnCycle /\ CycleBlockedOnPlayer

(***************************************************************************)
(* Claims about the test scheduler's crontab reference.                    *)
(***************************************************************************)
\* C40: the crontab reference of the test scheduler always equals the
\* crontab the state service holds; a crontab loaded from the store at
\* bootstrap is therefore the scheduler's reference before any crontab
\* message has arrived.
C40_SchedulerCrontabEqualsService == test_alarm.crontab = crontab

=============================================================================
